---- MODULE Spec2Model ----
(***************************************************************************)
(* Model of the pyth-observer check-evaluation and alert-dispatch engine:  *)
(* Observer.run (the cycle driver), Dispatch.run (evaluation and the       *)
(* failed-check loop) and Dispatch.process_zenduty_events (the resolution  *)
(* pass), together with the checks that produce the failures.              *)
(*                                                                         *)
(* Time is counted in minutes of wall clock (a cycle takes about a minute, *)
(* publisher.py:24).                                                       *)
(* A Python None is the empty tuple, a present optional value v is <<v>>.  *)
(***************************************************************************)
EXTENDS Integers, Sequences, FiniteSets, TLC

VARIABLES
    config,          \* Dispatch.config: events list, checks.global, scenario
    now,             \* wall clock at the latest datetime.now() of a cycle
    open_alerts,     \* Dispatch.open_alerts, insertion-ordered dict of AlertInfo
    delayed_events,  \* Dispatch.delayed_events, dict keyed by <<event type, id>>
    alerts_file,     \* contents of OPEN_ALERTS_FILE, <<>> while the file is missing
    states,          \* Observer.run's local `states` list
    observer_ready,  \* health_server.observer_ready
    last,            \* observation of the latest cycle (what ran, what was sent)
    steady,          \* history: the checks that have failed in every cycle so far
    last_failure,    \* history: per open record, the time of its check's latest
                     \* failure while every cycle since has run to its end
    call             \* the locals of a function call that is followed step by step

vars == <<config, now, open_alerts, delayed_events, alerts_file, states,
          observer_ready, last, steady, last_failure, call>>

----------------------------------------------------------------------------
(* Bounds of the model *)

StartMinute == 49
MaxMinutes == 12
PairMaxMinutes == 4
MaxStep == 2
QuietMaxMinutes == 16
StallCycles == 33
MaxPriceChanges == 1
MaxUpdates == 4
MaxIdle == 1
MaxSlot == 12

(* Program constants *)

WindowMinutes == 5
RealertMinutes == 5
MinutesPerHour == 60
DefaultAlertThreshold == 5
DefaultResolutionThreshold == 3
MinPublishersLimit == 10
ZendutyMaxRetries == 30
ZendutyMaxSleep == 30
PUBLISHER_CACHE_MAX_LEN == 30

None == <<>>
Some(v) == <<v>>
IsNone(x) == x = <<>>
Val(x) == x[1]

Abs(x) == IF x < 0 THEN -x ELSE x

\* datetime.minute of a clock reading
MinuteOf(t) == t % MinutesPerHour

GatedEvents == {"ZendutyEvent", "TelegramEvent"}

----------------------------------------------------------------------------
(* Checks *)

\* generate_alert_identifier: "<CheckType>-<symbol>[-<publisherName>]"
generate_alert_identifier(check) ==
    IF check.state.kind = "PublisherState"
    THEN <<check.type, check.state.symbol, check.state.publisher_name>>
    ELSE <<check.type, check.state.symbol>>

\* a check that passes at max_slot_distance and at abandoned_slot_distance
PriceFeedOfflineCheck_exclusive(state, cfg) ==
    IF ~state.market_open THEN TRUE
    ELSE LET distance == Abs(state.latest_block_slot - state.latest_trading_slot)
         IN  IF distance <= cfg.max_slot_distance THEN TRUE
             ELSE IF distance >= cfg.abandoned_slot_distance THEN TRUE
             ELSE FALSE

\* PriceFeedOfflineCheck.run
PriceFeedOfflineCheck(state, cfg) ==
    IF ~state.market_open THEN TRUE
    ELSE LET distance == Abs(state.latest_block_slot - state.latest_trading_slot)
         IN  IF distance < cfg.max_slot_distance THEN TRUE
             ELSE IF distance > cfg.abandoned_slot_distance THEN TRUE
             ELSE FALSE

\* PriceFeedCrossChainDeviationCheck.run reaches its division
CrossChainDeviationDivides(state, cfg, t) ==
    /\ ~IsNone(state.crosschain_price)
    /\ state.status = "TRADING"
    /\ state.market_open
    /\ ~(t - Val(state.crosschain_price).publish_time > cfg.max_staleness)

\* PriceFeedCrossChainDeviationCheck.run raises ZeroDivisionError
PriceFeedCrossChainDeviationCheckRaises(state, cfg, t) ==
    CrossChainDeviationDivides(state, cfg, t) /\ state.price_aggregate = 0

\* a check that passes at a deviation of exactly max_deviation
PriceFeedCrossChainDeviationCheck_inclusive(state, cfg, t) ==
    IF ~CrossChainDeviationDivides(state, cfg, t) THEN TRUE
    ELSE LET diff == Abs(Val(state.crosschain_price).price - state.price_aggregate)
         IN  IF state.price_aggregate > 0
             THEN diff * 100 <= cfg.max_deviation * state.price_aggregate
             ELSE diff * 100 >= cfg.max_deviation * state.price_aggregate

\* PriceFeedCrossChainDeviationCheck.run; deviation < max_deviation is
\* |xc - agg| / agg * 100 < max_deviation, cross-multiplied for agg > 0
PriceFeedCrossChainDeviationCheck(state, cfg, t) ==
    IF ~CrossChainDeviationDivides(state, cfg, t) THEN TRUE
    ELSE LET diff == Abs(Val(state.crosschain_price).price - state.price_aggregate)
         IN  IF state.price_aggregate > 0
             THEN diff * 100 < cfg.max_deviation * state.price_aggregate
             ELSE diff * 100 > cfg.max_deviation * state.price_aggregate

\* a check on the absolute slot distance, as PriceFeedOfflineCheck has it
PublisherOfflineCheck_abs(state, cfg) ==
    IF ~state.market_open THEN TRUE
    ELSE LET distance == Abs(state.latest_block_slot - state.slot)
         IN  IF distance < cfg.max_slot_distance THEN TRUE
             ELSE IF distance > cfg.abandoned_slot_distance THEN TRUE
             ELSE FALSE

\* PublisherOfflineCheck.run
PublisherOfflineCheck(state, cfg) ==
    IF ~state.market_open THEN TRUE
    ELSE LET distance == state.latest_block_slot - state.slot
         IN  IF distance < cfg.max_slot_distance THEN TRUE
             ELSE IF distance > cfg.abandoned_slot_distance THEN TRUE
             ELSE FALSE

\* PriceFeedConfidenceIntervalCheck.run
PriceFeedConfidenceIntervalCheck(state, cfg) ==
    IF state.status # "TRADING" THEN TRUE
    ELSE IF state.confidence_interval_aggregate > cfg.min_confidence_interval THEN TRUE
    ELSE FALSE

Max(a, b) == IF a >= b THEN a ELSE b

\* a difference that ignores the publisher's confidence interval
ci_adjusted_price_diff_no_band(state) == Abs(state.price - state.price_aggregate)

\* PublisherPriceCheck.ci_adjusted_price_diff
ci_adjusted_price_diff(state) ==
    Max(Abs(state.price - state.price_aggregate) - state.confidence_interval, 0)

\* PublisherPriceCheck.run; deviation <= max_aggregate_distance is
\* diff / price_aggregate * 100 <= max_aggregate_distance, cross-multiplied
\* by price_aggregate, which turns the comparison when it is negative
PublisherPriceCheck(state, cfg) ==
    IF state.aggregate_status # "TRADING" THEN TRUE
    ELSE IF state.status # "TRADING" THEN TRUE
    ELSE IF Abs(state.slot - state.aggregate_slot) > cfg.max_slot_distance THEN TRUE
    ELSE IF state.price = 0 \/ state.price_aggregate = 0 THEN TRUE
    ELSE IF state.price_aggregate > 0
    THEN ci_adjusted_price_diff(state) * 100
             <= cfg.max_aggregate_distance * state.price_aggregate
    ELSE ci_adjusted_price_diff(state) * 100
             >= cfg.max_aggregate_distance * state.price_aggregate

\* a check that skips a feed without a cross-chain record
PriceFeedCrossChainOnlineCheck_skips_missing(state, cfg) ==
    IF state.status # "TRADING" THEN TRUE
    ELSE IF ~state.market_open THEN TRUE
    ELSE IF IsNone(state.crosschain_price) THEN TRUE
    ELSE IF Val(state.crosschain_price).publish_time = 0 THEN TRUE
    ELSE Val(state.crosschain_price).snapshot_time
             - Val(state.crosschain_price).publish_time < cfg.max_staleness

\* PriceFeedCrossChainOnlineCheck.run
PriceFeedCrossChainOnlineCheck(state, cfg) ==
    IF state.status # "TRADING" THEN TRUE
    ELSE IF ~state.market_open THEN TRUE
    ELSE IF IsNone(state.crosschain_price) THEN FALSE
    ELSE IF Val(state.crosschain_price).publish_time = 0 THEN TRUE
    ELSE Val(state.crosschain_price).snapshot_time
             - Val(state.crosschain_price).publish_time < cfg.max_staleness

\* PriceDeviationCrosschain.threshold, percent (events.py, the default of
\* PYTH_OBSERVER_PRICE_DEVIATION_CROSSCHAIN)
PriceDeviationCrosschainThreshold == 5

\* PriceDeviationCrosschain.is_valid of the validators of events.py; v has the
\* cross-chain price, the aggregate status and price, and int(time.time()).
\* `if int(time.time()) - publish_time: return True` returns for every
\* non-zero difference
PriceDeviationCrosschain_is_valid(v) ==
    IF IsNone(v.crosschain_price) THEN TRUE
    ELSE IF v.price_status # "TRADING" \/ v.pyth_price = 0 THEN TRUE
    ELSE IF v.time - Val(v.crosschain_price).publish_time # 0 THEN TRUE
    ELSE IF v.pyth_price > 0
    THEN ~(Abs(Val(v.crosschain_price).price - v.pyth_price) * 100
              > PriceDeviationCrosschainThreshold * v.pyth_price)
    ELSE ~(Abs(Val(v.crosschain_price).price - v.pyth_price) * 100
              < PriceDeviationCrosschainThreshold * v.pyth_price)

\* check.run() for a check class of the modelled families
RunCheck(type, state, cfg, t) ==
    CASE type = "PriceFeedOfflineCheck" -> PriceFeedOfflineCheck(state, cfg)
      [] type = "PriceFeedCrossChainDeviationCheck" ->
             PriceFeedCrossChainDeviationCheck(state, cfg, t)
      [] type = "PublisherOfflineCheck" -> PublisherOfflineCheck(state, cfg)
      [] type = "PriceFeedConfidenceIntervalCheck" ->
             PriceFeedConfidenceIntervalCheck(state, cfg)

\* check.run() raises
CheckRaises(type, state, cfg, t) ==
    /\ type = "PriceFeedCrossChainDeviationCheck"
    /\ PriceFeedCrossChainDeviationCheckRaises(state, cfg, t)

\* the check classes that price_feed.py defines
PriceFeedCheckClasses ==
    {"PriceFeedOfflineCheck", "PriceFeedCoinGeckoCheck",
     "PriceFeedConfidenceIntervalCheck", "PriceFeedCrossChainOnlineCheck",
     "PriceFeedCrossChainDeviationCheck"}

\* the check classes that publisher.py defines
PublisherCheckClasses ==
    {"PublisherWithinAggregateConfidenceCheck", "PublisherConfidenceIntervalCheck",
     "PublisherOfflineCheck", "PublisherPriceCheck", "PublisherStalledCheck"}

PRICE_FEED_CHECKS ==
    <<"PriceFeedCoinGeckoCheck", "PriceFeedCrossChainDeviationCheck",
      "PriceFeedCrossChainOnlineCheck", "PriceFeedOfflineCheck">>

PUBLISHER_CHECKS ==
    <<"PublisherWithinAggregateConfidenceCheck", "PublisherConfidenceIntervalCheck",
      "PublisherOfflineCheck", "PublisherPriceCheck", "PublisherStalledCheck">>

----------------------------------------------------------------------------
(* Dispatch: configuration and check evaluation *)

\* Dispatch.load_config: the global entry with the symbol's override merged
\* shallowly on top (config |= override)
load_config(cfg, check_name, symbol) ==
    LET g == cfg.checks.global[check_name]
    IN  IF symbol \in DOMAIN cfg.checks.symbols
           /\ check_name \in DOMAIN cfg.checks.symbols[symbol]
        THEN LET o == cfg.checks.symbols[symbol][check_name]
             IN  [k \in DOMAIN g \cup DOMAIN o |->
                     IF k \in DOMAIN o THEN o[k] ELSE g[k]]
        ELSE g

\* a load_config without the deepcopy: config |= override updates the global
\* entry itself
load_config_stored_in_place(cfg, check_name, symbol) ==
    [cfg.checks EXCEPT !.global[check_name] = load_config(cfg, check_name, symbol)]

\* self.config["checks"] after load_config: config is a deepcopy of the global
\* entry (dispatch.py:196), so config |= override (dispatch.py:200) updates
\* the copy and the stored configuration keeps its value
load_config_stored(cfg, check_name, symbol) == cfg.checks

\* no check was run yet
NoChecks == [failed |-> <<>>, ran |-> <<>>]

\* Dispatch.check_price_feed / Dispatch.check_publisher: run the enabled
\* checks of the list in order; the result is the failed checks and the
\* classes whose run() was called, or exc set when a run() raised
RECURSIVE run_checks(_, _, _, _, _, _)
run_checks(cfg, classes, i, state, acc, t) ==
    IF i > Len(classes) THEN [failed |-> acc.failed, ran |-> acc.ran, exc |-> "None"]
    ELSE LET c == load_config(cfg, classes[i], state.symbol)
             called == Append(acc.ran, classes[i])
         IN  IF ~c.enable THEN run_checks(cfg, classes, i + 1, state, acc, t)
             ELSE IF CheckRaises(classes[i], state, c, t)
             THEN [failed |-> acc.failed, ran |-> called, exc |-> "ZeroDivisionError"]
             ELSE IF RunCheck(classes[i], state, c, t)
             THEN run_checks(cfg, classes, i + 1, state,
                             [acc EXCEPT !.ran = called], t)
             ELSE run_checks(cfg, classes, i + 1, state,
                             [failed |-> Append(acc.failed,
                                                [type |-> classes[i], state |-> state]),
                              ran |-> called], t)

check_price_feed(cfg, state, t) ==
    run_checks(cfg, PRICE_FEED_CHECKS, 1, state, NoChecks, t)
check_publisher(cfg, state, t) ==
    run_checks(cfg, PUBLISHER_CHECKS, 1, state, NoChecks, t)

\* Dispatch.run, first loop: the failed checks of every state, in order, and
\* the calls of run() as <<class, index of the snapshot>>
RECURSIVE evaluate(_, _, _, _, _)
evaluate(cfg, sts, i, acc, t) ==
    IF i > Len(sts) THEN [failed |-> acc.failed, ran |-> acc.ran, exc |-> "None"]
    ELSE LET r == IF sts[i].kind = "PriceFeedState"
                  THEN check_price_feed(cfg, sts[i], t)
                  ELSE check_publisher(cfg, sts[i], t)
             ran == acc.ran \o [k \in 1..Len(r.ran) |-> <<r.ran[k], i>>]
         IN  IF r.exc # "None"
             THEN [failed |-> acc.failed, ran |-> ran, exc |-> r.exc]
             ELSE evaluate(cfg, sts, i + 1,
                           [failed |-> acc.failed \o r.failed, ran |-> ran], t)

----------------------------------------------------------------------------
(* Dispatch: the alert map (an insertion-ordered dict keyed by identifier) *)

Has(alerts, id) == \E i \in 1..Len(alerts) : alerts[i].id = id
IndexOf(alerts, id) == CHOOSE i \in 1..Len(alerts) : alerts[i].id = id
Get(alerts, id) == alerts[IndexOf(alerts, id)]
Put(alerts, rec) ==
    IF Has(alerts, rec.id) THEN [alerts EXCEPT ![IndexOf(alerts, rec.id)] = rec]
    ELSE Append(alerts, rec)

\* a deletion that leaves the record in the map
Del_keeps(alerts, id) == alerts

Del(alerts, id) == SelectSeq(alerts, LAMBDA e : e.id # id)

\* a record that is created as already alerted
NewAlert_marked_sent(check, t) ==
    [id |-> generate_alert_identifier(check),
     type |-> check.type,
     window_start |-> t,
     failures |-> 1,
     last_window_failures |-> None,
     sent |-> TRUE,
     last_alert |-> None]

\* the AlertInfo created at dispatch.py:109
NewAlert(check, t) ==
    [id |-> generate_alert_identifier(check),
     type |-> check.type,
     window_start |-> t,
     failures |-> 1,
     last_window_failures |-> None,
     sent |-> FALSE,
     last_alert |-> None]

\* Dispatch.check_zd_alert_status
roll_window(alerts, a, t) ==
    IF t - a.window_start >= WindowMinutes
    THEN Put(alerts, [a EXCEPT !.window_start = t,
                               !.last_window_failures = Some(a.failures),
                               !.failures = 0])
    ELSE alerts

check_zd_alert_status(alerts, id, t) ==
    IF ~Has(alerts, id) THEN alerts ELSE roll_window(alerts, Get(alerts, id), t)

----------------------------------------------------------------------------
(* Dispatch.run: the failed-check loop *)

SetKey(f, k, v) == [x \in DOMAIN f \cup {k} |-> IF x = k THEN v ELSE f[x]]
DelKey(f, k) == [x \in DOMAIN f \ {k} |-> f[x]]
EmptyDict == [x \in {} |-> x]

\* Dispatch.__init__ creates delayed_events only when ZendutyEvent is configured
HasDelayedEvents(cfg) == \E i \in 1..Len(cfg.events) : cfg.events[i] = "ZendutyEvent"

\* dispatch.py:108-120: create the record, or roll its window and count the failure
increment(alerts, a) == Put(alerts, [a EXCEPT !.failures = @ + 1])
increment_in(rolled, id) == increment(rolled, Get(rolled, id))

count_failure(alerts, check, t) ==
    IF ~Has(alerts, generate_alert_identifier(check))
    THEN Append(alerts, NewAlert(check, t))
    ELSE increment_in(check_zd_alert_status(alerts, generate_alert_identifier(check), t),
                      generate_alert_identifier(check))

\* an event type whose events are stored instead of sent (dispatch.py:105)
IsGated(event_type) == event_type \in GatedEvents

\* a loop that keeps the event stored first for a key (dict.setdefault)
loop_event_keeps_first(cfg, d, check, event_type, t) ==
    LET event == [type |-> event_type, check |-> check, built |-> t]
        id == generate_alert_identifier(check)
    IN  IF IsGated(event_type)
        THEN IF HasDelayedEvents(cfg)
             THEN [d EXCEPT !.alerts = count_failure(d.alerts, check, t),
                            !.delayed = IF <<event_type, id>> \in DOMAIN d.delayed
                                        THEN d.delayed
                                        ELSE SetKey(d.delayed, <<event_type, id>>, event)]
             ELSE [d EXCEPT !.alerts = count_failure(d.alerts, check, t),
                            !.exc = "AttributeError"]
        ELSE [d EXCEPT !.sent_events = Append(d.sent_events, event)]

\* one iteration of the inner loop, dispatch.py:102-126; the Event object
\* made at dispatch.py:103 is told from those of other cycles by `built`,
\* the current_time of the run that made it
loop_event(cfg, d, check, event_type, t) ==
    LET event == [type |-> event_type, check |-> check, built |-> t]
        id == generate_alert_identifier(check)
    IN  IF IsGated(event_type)
        THEN IF HasDelayedEvents(cfg)
             THEN [d EXCEPT !.alerts = count_failure(d.alerts, check, t),
                            !.delayed = SetKey(d.delayed, <<event_type, id>>, event)]
             ELSE [d EXCEPT !.alerts = count_failure(d.alerts, check, t),
                            !.exc = "AttributeError"]
        ELSE [d EXCEPT !.sent_events = Append(d.sent_events, event)]

\* dispatch.py:101-126 over all failed checks and event types; stops at an exception
RECURSIVE failed_check_loop(_, _, _, _, _, _)
failed_check_loop(cfg, d, failed, i, k, t) ==
    IF d.exc # "None" \/ i > Len(failed) THEN d
    ELSE IF k > Len(cfg.events) THEN failed_check_loop(cfg, d, failed, i + 1, 1, t)
    ELSE failed_check_loop(cfg, loop_event(cfg, d, failed[i], cfg.events[k], t),
                           failed, i, k + 1, t)

\* asyncio.gather(*events) without return_exceptions: every send is started,
\* and the first exception is raised to the caller
\* TelegramEvent.send posts a message for a publisher check only
\* (event.py:113); for any other check it returns at once
sends_nothing(event_type, id) == event_type = "TelegramEvent" /\ Len(id) # 3

\* what becomes of the send s = <<event type, identifier>>
outcome_of(s, io) == IF sends_nothing(s[1], s[2]) THEN "ok" ELSE io[s[1]]

gather_raises(events, io) ==
    \E i \in 1..Len(events) :
        outcome_of(<<events[i].type, generate_alert_identifier(events[i].check)>>, io)
            = "raise"

SendsOf(events) ==
    {<<events[i].type, generate_alert_identifier(events[i].check)>> : i \in 1..Len(events)}

\* the Event objects whose send() is called at dispatch.py:283, each as
\* <<event type, identifier, built>>
EventsOf(events) ==
    {<<events[i].type, generate_alert_identifier(events[i].check), events[i].built>> :
        i \in 1..Len(events)}

----------------------------------------------------------------------------
(* Dispatch.process_zenduty_events: the resolution pass *)

Threshold(check_config, key, default) ==
    IF key \in DOMAIN check_config THEN check_config[key] ELSE default

\* dispatch.py:234-237
last_window_resolved(info, resolution_threshold) ==
    /\ ~IsNone(info.last_window_failures)
    /\ Val(info.last_window_failures) <= resolution_threshold

\* dispatch.py:239-243
current_window_resolved(info, alert_threshold, resolution_threshold) ==
    /\ info.sent
    /\ info.failures <= resolution_threshold
    /\ info.failures < alert_threshold

\* the condition without the current-window clause
is_resolved_last_window_only(info, alert_threshold, resolution_threshold) ==
    last_window_resolved(info, resolution_threshold)

\* dispatch.py:244
is_resolved(info, alert_threshold, resolution_threshold) ==
    \/ last_window_resolved(info, resolution_threshold)
    \/ current_window_resolved(info, alert_threshold, resolution_threshold)

\* the cadence without the minimum gap since the last alert
realert_due_no_gap(info, t) ==
    \/ IsNone(info.last_alert)
    \/ MinuteOf(t) = 0

\* dispatch.py:265-270: first alert at once, later ones at the start of an hour
realert_due(info, t) ==
    \/ IsNone(info.last_alert)
    \/ /\ t - Val(info.last_alert) > RealertMinutes
       /\ MinuteOf(t) = 0

\* the raise condition without the failure threshold
raise_condition_no_threshold(info, alert_threshold, t) ==
    realert_due(info, t)

\* dispatch.py:262-271 (the elif: resolved is False here)
raise_condition(info, alert_threshold, t) ==
    /\ info.failures >= alert_threshold \/ info.sent
    /\ realert_due(info, t)

\* dispatch.py:276-281: the stored events of the enabled gated channels
RECURSIVE pending_events(_, _, _, _)
pending_events(cfg, delayed, id, k) ==
    IF k > Len(cfg.events) THEN <<>>
    ELSE LET rest == pending_events(cfg, delayed, id, k + 1)
             key == <<cfg.events[k], id>>
         IN  IF IsGated(cfg.events[k]) /\ key \in DOMAIN delayed
             THEN <<delayed[key]>> \o rest
             ELSE rest

\* a resolution that counts every response as delivered
response_is_success_always(outcome) == TRUE

\* dispatch.py:252: response and 200 <= response.status < 300
response_is_success(outcome) == outcome = "ok"

\* a decision whose raise leaves last_alert as it was
pass_decide_keeps_last_alert(cfg, p1, info, alert_threshold, resolution_threshold, t, io) ==
    IF is_resolved(info, alert_threshold, resolution_threshold)
    THEN IF info.sent
         THEN IF io.resolve = "raise"
              THEN [p1 EXCEPT !.resolved = @ \cup {info.id},
                              !.resolve_sent = @ \cup {info.id},
                              !.exc = "ClientError"]
              ELSE [p1 EXCEPT !.resolved = @ \cup {info.id},
                              !.resolve_sent = @ \cup {info.id},
                              !.resolve_ok = IF io.resolve = "ok" THEN @ \cup {info.id}
                                             ELSE @,
                              !.to_remove = IF response_is_success(io.resolve)
                                            THEN Append(@, info.id) ELSE @]
         ELSE [p1 EXCEPT !.resolved = @ \cup {info.id},
                         !.to_remove = Append(@, info.id)]
    ELSE IF raise_condition(info, alert_threshold, t)
    THEN [p1 EXCEPT !.alerts = Put(@, [info EXCEPT !.sent = TRUE]),
                    !.raised = @ \cup {info.id},
                    !.to_alert = @ \o pending_events(cfg, p1.delayed, info.id, 1)]
    ELSE p1

\* the decision of one iteration of the loop at dispatch.py:223-285, for the
\* record `info` after its window check
pass_decide(cfg, p1, info, alert_threshold, resolution_threshold, t, io) ==
    IF is_resolved(info, alert_threshold, resolution_threshold)
    THEN IF info.sent
         THEN IF io.resolve = "raise"
              THEN [p1 EXCEPT !.resolved = @ \cup {info.id},
                              !.resolve_sent = @ \cup {info.id},
                              !.exc = "ClientError"]
              ELSE [p1 EXCEPT !.resolved = @ \cup {info.id},
                              !.resolve_sent = @ \cup {info.id},
                              !.resolve_ok = IF io.resolve = "ok" THEN @ \cup {info.id}
                                             ELSE @,
                              !.to_remove = IF response_is_success(io.resolve)
                                            THEN Append(@, info.id) ELSE @]
         ELSE [p1 EXCEPT !.resolved = @ \cup {info.id},
                         !.to_remove = Append(@, info.id)]
    ELSE IF raise_condition(info, alert_threshold, t)
    THEN [p1 EXCEPT !.alerts = Put(@, [info EXCEPT !.sent = TRUE,
                                                    !.last_alert = Some(t)]),
                    !.raised = @ \cup {info.id},
                    !.to_alert = @ \o pending_events(cfg, p1.delayed, info.id, 1)]
    ELSE p1

pass_info(cfg, p1, info, check_config, t, io) ==
    pass_decide(cfg, [p1 EXCEPT !.seen = Append(@, info)], info,
                Threshold(check_config, "alert_threshold", DefaultAlertThreshold),
                Threshold(check_config, "resolution_threshold",
                          DefaultResolutionThreshold),
                t, io)

pass_rolled(cfg, p1, id, t, io) ==
    pass_info(cfg, p1, Get(p1.alerts, id),
              cfg.checks.global[Get(p1.alerts, id).type], t, io)

\* one iteration of the loop at dispatch.py:223-285
pass_item(cfg, p, id, t, io) ==
    pass_rolled(cfg, [p EXCEPT !.alerts = check_zd_alert_status(@, id, t)], id, t, io)

RECURSIVE pass_loop(_, _, _, _, _, _)
pass_loop(cfg, p, ids, i, t, io) ==
    IF p.exc # "None" \/ i > Len(ids) THEN p
    ELSE pass_loop(cfg, pass_item(cfg, p, ids[i], t, io), ids, i + 1, t, io)

\* a removal that deletes the stored event of the incident channel only
RECURSIVE remove_events_zenduty_only(_, _, _, _)
remove_events_zenduty_only(cfg, delayed, id, k) ==
    IF k > Len(cfg.events) THEN delayed
    ELSE remove_events_zenduty_only(cfg,
                       IF cfg.events[k] = "ZendutyEvent"
                       THEN DelKey(delayed, <<cfg.events[k], id>>)
                       ELSE delayed,
                       id, k + 1)

\* dispatch.py:291-299: delete the resolved records and their stored events
RECURSIVE remove_events(_, _, _, _)
remove_events(cfg, delayed, id, k) ==
    IF k > Len(cfg.events) THEN delayed
    ELSE remove_events(cfg,
                       IF IsGated(cfg.events[k]) THEN DelKey(delayed, <<cfg.events[k], id>>)
                       ELSE delayed,
                       id, k + 1)

RECURSIVE remove_resolved(_, _, _, _)
remove_resolved(cfg, p, to_remove, i) ==
    IF i > Len(to_remove) THEN p
    ELSE remove_resolved(cfg,
                         [p EXCEPT !.alerts = Del(p.alerts, to_remove[i]),
                                   !.delayed = remove_events(cfg, p.delayed, to_remove[i], 1)],
                         to_remove, i + 1)

\* dispatch.py:288-304: the gather of the raised alerts, the removal of the
\* resolved records and the write of the file
finish_pass(cfg, p1, io) ==
    IF p1.exc # "None" THEN p1
    ELSE IF gather_raises(p1.to_alert, io)
    THEN [p1 EXCEPT !.exc = "ClientError", !.pass_sends = SendsOf(p1.to_alert),
                    !.alerted = EventsOf(p1.to_alert)]
    ELSE [remove_resolved(cfg, p1, p1.to_remove, 1)
             EXCEPT !.written = TRUE, !.pass_sends = SendsOf(p1.to_alert),
                    !.alerted = EventsOf(p1.to_alert)]

\* Dispatch.process_zenduty_events as a whole; the result carries the new
\* alert map, the stored events, whether the file was written, and what was sent
process_zenduty_events(cfg, alerts, delayed, t, io) ==
    finish_pass(cfg,
        pass_loop(cfg,
                  [alerts |-> alerts, delayed |-> delayed, seen |-> <<>>,
                   to_remove |-> <<>>, to_alert |-> <<>>,
                   resolved |-> {}, resolve_sent |-> {}, resolve_ok |-> {},
                   raised |-> {}, exc |-> "None", written |-> FALSE,
                   pass_sends |-> {}, alerted |-> {}],
                  [i \in 1..Len(alerts) |-> alerts[i].id], 1, t, io),
        io)

----------------------------------------------------------------------------
(* The durable alert-state file *)

\* json.dump of one AlertInfo: every value is a tagged JSON value
json_of_alert(a) ==
    [id |-> a.id,
     type |-> <<"str", a.type>>,
     window_start |-> <<"str", a.window_start>>,
     failures |-> <<"num", a.failures>>,
     last_window_failures |->
         IF IsNone(a.last_window_failures) THEN <<"null">>
         ELSE <<"num", Val(a.last_window_failures)>>,
     sent |-> <<"bool", a.sent>>,
     last_alert |->
         IF IsNone(a.last_alert) THEN <<"null">> ELSE <<"str", Val(a.last_alert)>>]

\* json.dump(self.open_alerts, file), dispatch.py:303-304, run to its end:
\* the document is complete
json_dump(alerts) ==
    [exists |-> TRUE, doc |-> [i \in 1..Len(alerts) |-> json_of_alert(alerts[i])],
     complete |-> TRUE]

\* open(file, "w") truncates the file and json.dump writes the document piece
\* by piece: the file when the process stops after the first k records
partial_dump(alerts, k) ==
    [exists |-> TRUE, doc |-> [i \in 1..k |-> json_of_alert(alerts[i])],
     complete |-> FALSE]

\* no file at OPEN_ALERTS_FILE
NoFile == [exists |-> FALSE, doc |-> <<>>, complete |-> FALSE]

\* json.load at dispatch.py:71 raises JSONDecodeError on a document that is
\* not complete; only FileNotFoundError is caught (dispatch.py:79)
load_alerts_raises(file) == file.exists /\ ~file.complete

\* a reader that takes a JSON null for the number 0
alert_of_json_null_as_zero(j) ==
    [id |-> j.id,
     type |-> j.type[2],
     window_start |-> j.window_start[2],
     failures |-> j.failures[2],
     last_window_failures |->
         IF j.last_window_failures[1] = "null" THEN Some(0)
         ELSE Some(j.last_window_failures[2]),
     sent |-> j.sent[2],
     last_alert |->
         IF j.last_alert[1] = "null" THEN None ELSE Some(j.last_alert[2])]

\* json.load of one entry, with the two optional keys filled in when they
\* are missing (dispatch.py:73-77)
alert_of_json(j) ==
    [id |-> j.id,
     type |-> j.type[2],
     window_start |-> j.window_start[2],
     failures |-> j.failures[2],
     last_window_failures |->
         IF "last_window_failures" \notin DOMAIN j THEN None
         ELSE IF j.last_window_failures[1] = "null" THEN None
         ELSE Some(j.last_window_failures[2]),
     sent |-> j.sent[2],
     last_alert |->
         IF "last_alert" \notin DOMAIN j THEN None
         ELSE IF j.last_alert[1] = "null" THEN None ELSE Some(j.last_alert[2])]

\* Dispatch.load_alerts: the parsed file, or an empty dict when it is missing
load_alerts(file) ==
    IF ~file.exists THEN <<>>
    ELSE [i \in 1..Len(file.doc) |-> alert_of_json(file.doc[i])]

----------------------------------------------------------------------------
(* Dispatch.run *)

IdsOf(checks) == {generate_alert_identifier(checks[i]) : i \in 1..Len(checks)}

\* dispatch.py:130-133: the resolution pass, run when ZendutyEvent is configured
dispatch_pass(r1, p) ==
    [r1 EXCEPT !.alerts = p.alerts, !.delayed = p.delayed, !.seen = p.seen,
               !.resolved = p.resolved, !.resolve_sent = p.resolve_sent,
               !.resolve_ok = p.resolve_ok, !.raised = p.raised, !.exc = p.exc,
               !.written = p.written, !.pass_sends = p.pass_sends, !.alerted = p.alerted,
               !.stage = IF p.exc # "None" THEN "pass" ELSE "done"]

\* dispatch.py:126-133 for the result d of the failed-check loop
dispatch_loop(cfg, r0, d, t, io) ==
    IF d.exc # "None"
    THEN [r0 EXCEPT !.alerts = d.alerts, !.delayed = d.delayed, !.exc = d.exc,
                    !.stage = "loop"]
    ELSE IF gather_raises(d.sent_events, io)
    THEN [r0 EXCEPT !.alerts = d.alerts, !.delayed = d.delayed,
                    !.exc = "SendError",
                    !.loop_sends = SendsOf(d.sent_events), !.stage = "gather"]
    ELSE IF ~HasDelayedEvents(cfg)
    THEN [r0 EXCEPT !.alerts = d.alerts, !.delayed = d.delayed,
                    !.loop_sends = SendsOf(d.sent_events), !.stage = "done"]
    ELSE dispatch_pass([r0 EXCEPT !.loop_sends = SendsOf(d.sent_events)],
                       process_zenduty_events(cfg, d.alerts, d.delayed, t, io))

\* dispatch.py:94-133 for the result ev of the evaluation
dispatch_failed(cfg, ev, alerts, delayed, t, io) ==
    IF ev.exc # "None"
    THEN [alerts |-> alerts, delayed |-> delayed, seen |-> <<>>,
          resolved |-> {}, resolve_sent |-> {}, resolve_ok |-> {}, raised |-> {},
          exc |-> ev.exc, written |-> FALSE, pass_sends |-> {}, alerted |-> {},
          failed |-> {}, loop_sends |-> {}, stage |-> "evaluate", ran |-> ev.ran]
    ELSE dispatch_loop(cfg,
             [alerts |-> alerts, delayed |-> delayed, seen |-> <<>>,
              resolved |-> {}, resolve_sent |-> {}, resolve_ok |-> {}, raised |-> {},
              exc |-> "None", written |-> FALSE, pass_sends |-> {}, alerted |-> {},
              failed |-> IdsOf(ev.failed), loop_sends |-> {}, stage |-> "done",
              ran |-> ev.ran],
             failed_check_loop(cfg,
                 [alerts |-> alerts, delayed |-> delayed, sent_events |-> <<>>,
                  exc |-> "None"],
                 ev.failed, 1, 1, t),
             t, io)

\* Dispatch.run: evaluation, the failed-check loop, the gather of the immediate
\* sends and, with ZendutyEvent configured, the resolution pass
dispatch_run(cfg, sts, alerts, delayed, t, io) ==
    dispatch_failed(cfg, evaluate(cfg, sts, 1, NoChecks, t), alerts, delayed, t, io)

----------------------------------------------------------------------------
(* Observer.run: building the snapshots of a cycle *)

\* PriceFeedState built at __init__.py:137-153
price_feed_state(product, account) ==
    [kind |-> "PriceFeedState",
     symbol |-> product.symbol,
     market_open |-> product.market_open,
     status |-> Val(account.aggregate_price_status),
     latest_block_slot |-> IF IsNone(account.slot) THEN -1 ELSE Val(account.slot),
     latest_trading_slot |-> account.last_slot,
     price_aggregate |-> account.price_aggregate,
     confidence_interval_aggregate |-> account.confidence_interval_aggregate,
     crosschain_price |-> product.crosschain_price]

\* PublisherState built at __init__.py:174-190
publisher_state(product, account, component) ==
    [kind |-> "PublisherState",
     publisher_name |-> component.publisher_name,
     symbol |-> product.symbol,
     market_open |-> product.market_open,
     status |-> component.price_status,
     aggregate_status |-> Val(account.aggregate_price_status),
     slot |-> component.pub_slot,
     aggregate_slot |-> account.last_slot,
     latest_block_slot |-> IF IsNone(account.slot) THEN -1 ELSE Val(account.slot),
     price_aggregate |-> account.price_aggregate]

\* __init__.py:116-193 for the price accounts of one product; b is
\* [states, exc]
RECURSIVE build_accounts(_, _, _, _)
build_accounts(product, accounts, i, b) ==
    IF b.exc # "None" \/ i > Len(accounts) THEN b
    ELSE LET a == accounts[i]
         IN  IF IsNone(a.min_publishers) \/ Val(a.min_publishers) >= MinPublishersLimit
             THEN build_accounts(product, accounts, i + 1, b)
             ELSE IF IsNone(a.aggregate_price_status) \/ ~a.has_aggregate_price_info
             THEN [b EXCEPT !.exc = "RuntimeError"]
             ELSE build_accounts(product, accounts, i + 1,
                      [b EXCEPT !.states =
                          b.states \o <<price_feed_state(product, a)>>
                          \o [k \in 1..Len(a.components) |->
                                 publisher_state(product, a, a.components[k])]])

\* __init__.py:98-193: the loop over the products; `states` is reset for
\* every product that is not skipped
RECURSIVE build_states(_, _, _)
build_states(products, i, b) ==
    IF b.exc # "None" \/ i > Len(products) THEN b
    ELSE LET product == products[i]
         IN  IF ~product.has_base \/ ~product.has_first_price_account_key
             THEN build_states(products, i + 1, b)
             ELSE IF product.prices_error
             THEN [states |-> <<>>, exc |-> "FetchError"]
             ELSE build_states(products, i + 1,
                      build_accounts(product, product.price_accounts, 1,
                                     [states |-> <<>>, exc |-> "None"]))

----------------------------------------------------------------------------
(* Configurations and inputs of the model *)

CheckNames == PriceFeedCheckClasses \cup PublisherCheckClasses

\* checks.global with the given check types enabled, no alert_threshold or
\* resolution_threshold key (the defaults apply), and no per-symbol override
ChecksConfig(enabled) ==
    [global |-> [c \in CheckNames |->
                    IF c \in enabled
                    THEN [enable |-> TRUE, max_slot_distance |-> 25,
                          abandoned_slot_distance |-> 100000,
                          max_deviation |-> 5, max_staleness |-> 60,
                          min_confidence_interval |-> 0]
                    ELSE [enable |-> FALSE]],
     symbols |-> EmptyDict]

\* one price feed, PriceFeedOfflineCheck only
FeedConfig(events) ==
    [scenario |-> "feed", events |-> events, minutes |-> MaxMinutes,
     checks |-> ChecksConfig({"PriceFeedOfflineCheck"})]

\* one price feed over a horizon that spans more than two failure windows
QuietConfig(events) ==
    [scenario |-> "feed", events |-> events, minutes |-> QuietMaxMinutes,
     checks |-> ChecksConfig({"PriceFeedOfflineCheck"})]

\* one price feed with one publisher
PairConfig(events) ==
    [scenario |-> "pair", events |-> events, minutes |-> PairMaxMinutes,
     checks |-> ChecksConfig({"PriceFeedCrossChainDeviationCheck",
                              "PublisherOfflineCheck"})]

\* one price feed, PriceFeedOfflineCheck and PriceFeedConfidenceIntervalCheck
ConfidenceConfig(events) ==
    [scenario |-> "confidence", events |-> events, minutes |-> MaxMinutes,
     checks |-> ChecksConfig({"PriceFeedOfflineCheck",
                              "PriceFeedConfidenceIntervalCheck"})]

Component(pub_slot) ==
    [publisher_name |-> "pubA", pub_slot |-> pub_slot, price_status |-> "TRADING"]

Account(status, slot, price, components) ==
    [min_publishers |-> Some(1), slot |-> Some(slot), last_slot |-> 100,
     aggregate_price_status |-> status, has_aggregate_price_info |-> TRUE,
     price_aggregate |-> price, confidence_interval_aggregate |-> 1,
     components |-> components]

Product(xc, accounts) ==
    [has_base |-> TRUE, has_first_price_account_key |-> TRUE, symbol |-> "S1",
     market_open |-> TRUE, crosschain_price |-> xc, prices_error |-> FALSE,
     price_accounts |-> accounts]

\* the product lists a fetch can return in a scenario
Fetches(cfg) ==
    IF cfg.scenario = "feed"
    THEN {<<Product(None, <<Account(Some("TRADING"), slot, 100, <<>>)>>)>> :
              slot \in {100, 130}}
    ELSE IF cfg.scenario = "confidence"
    THEN {<<Product(None,
                    <<[Account(Some("TRADING"), slot, 100, <<>>)
                          EXCEPT !.confidence_interval_aggregate = ci]>>)>> :
              slot \in {100, 130}, ci \in {0, 1}}
    ELSE {<<Product(Some([price |-> 100, publish_time |-> 0]),
                    <<Account(status, 130, price, <<Component(pub_slot)>>)>>)>> :
              status \in {None, Some("TRADING")}, price \in {0, 100},
              pub_slot \in {100, 130}}

Outcomes == {"ok", "fail", "raise"}

InEvents(cfg, e) == \E i \in 1..Len(cfg.events) : cfg.events[i] = e

\* the outcome of the sends of a cycle, per channel: delivered, refused
\* (a non-success response), or an exception of the transport
IOs(cfg) ==
    {io \in [{"LogEvent", "DatadogEvent", "TelegramEvent", "ZendutyEvent", "resolve"}
                -> Outcomes] :
        /\ io["LogEvent"] = "ok"
        /\ io["DatadogEvent"] \in
               (IF InEvents(cfg, "DatadogEvent") THEN {"ok", "raise"} ELSE {"ok"})
        /\ InEvents(cfg, "TelegramEvent") \/ io["TelegramEvent"] = "ok"
        /\ InEvents(cfg, "ZendutyEvent") \/ io["ZendutyEvent"] = "ok"
        /\ InEvents(cfg, "ZendutyEvent") \/ io["resolve"] = "ok"}

AllOk(io) == \A c \in DOMAIN io : io[c] = "ok"

\* every send delivered
OkIO ==
    [c \in {"LogEvent", "DatadogEvent", "TelegramEvent", "ZendutyEvent", "resolve"}
        |-> "ok"]

\* the channels on which the cycle with result r has started a send
used_channels(r) ==
    {s[1] : s \in {x \in r.loop_sends \cup r.pass_sends : ~sends_nothing(x[1], x[2])}}
    \cup (IF r.resolve_sent # {} THEN {"resolve"} ELSE {})

\* the outcomes of the sends of a cycle: only a send that is started can fail
IOsFor(cfg, used) ==
    {io \in IOs(cfg) : \A c \in DOMAIN io : c \in used \/ io[c] = "ok"}

----------------------------------------------------------------------------
(* The state machine *)

EndTime(cfg) == StartMinute + cfg.minutes

NoLog ==
    [kind |-> "init", exc |-> "None", stage |-> "none", failed |-> {},
     loop_sends |-> {}, pass_sends |-> {}, alerted |-> {}, resolved |-> {}, resolve_sent |-> {},
     resolve_ok |-> {}, raised |-> {}, seen |-> <<>>, written |-> FALSE,
     expected |-> {}, pass_failed |-> {}, in_flight |-> {}, ran |-> <<>>]

\* Dispatch.__init__ (dispatch.py:55-66) and the first lines of Observer.run
InitMain(cfgs) ==
    /\ config \in cfgs
    /\ now = StartMinute
    /\ open_alerts = <<>>
    /\ delayed_events = EmptyDict
    /\ alerts_file = NoFile
    /\ states = <<>>
    /\ observer_ready = FALSE
    /\ last = NoLog
    /\ steady = None
    /\ last_failure = EmptyDict

\* no function call is followed
NoCall == [fn |-> "none"]

InitWith(cfgs) == InitMain(cfgs) /\ call = NoCall

\* the keys of the alert map
Keys(alerts) == {alerts[i].id : i \in 1..Len(alerts)}

\* the history of the records of `alerts` after a cycle at time t in which the
\* checks `failed` failed; `ran` tells whether the cycle ran to its end with
\* every send delivered
track_failures(alerts, prev, failed, ran, t) ==
    [id \in Keys(alerts) |->
        IF id \in failed THEN Some(t)
        ELSE IF id \in DOMAIN prev /\ ran THEN prev[id]
        ELSE None]

\* the identifiers of the checks that fail when every snapshot of the fetched
\* products is built and evaluated on its own
RECURSIVE isolated_failures(_, _, _, _, _)
isolated_failures(cfg, product, account, k, t) ==
    IF IsNone(account.aggregate_price_status) THEN {}
    ELSE LET st == IF k = 0 THEN price_feed_state(product, account)
                   ELSE publisher_state(product, account, account.components[k])
             r == evaluate(cfg, <<st>>, 1, NoChecks, t)
         IN  IdsOf(r.failed)
             \cup (IF k < Len(account.components)
                   THEN isolated_failures(cfg, product, account, k + 1, t)
                   ELSE {})

\* the exception classes that derive from Exception
ExceptionClasses ==
    {"FetchError", "RuntimeError", "ZeroDivisionError", "AttributeError",
     "SendError", "ClientError", "JSONDecodeError"}

\* a try block that catches RuntimeError only
caught_runtime_only(exc) == exc = "RuntimeError"

\* `except Exception` at __init__.py:204
caught_by_run(exc) == exc \in ExceptionClasses

\* the loop after an iteration that ended with exc: an exception that the
\* except clause does not catch leaves Observer.run
loop_kind(exc, kind) ==
    IF exc = "None" \/ caught_by_run(exc) THEN kind ELSE "terminated"

\* health_server.observer_ready after an iteration whose fetches succeeded
\* (line 93) and that ended with exc (line 206)
ready_after(exc) == exc = "None" \/ ~caught_by_run(exc)

\* the process is inside the loop of Observer.run
Running == last.kind \in {"init", "cycle", "fetch_error", "restart"}

\* asyncio.gather without return_exceptions (dispatch.py:128 and 288) hands
\* the first exception to its caller and leaves the other sends running: the
\* sends of the cycle with result r that nobody waits for any more
unjoined_sends(r, io) ==
    IF r.stage = "gather"
    THEN {s \in r.loop_sends : ~sends_nothing(s[1], s[2]) /\ io[s[1]] # "raise"}
    ELSE IF r.stage = "pass"
    THEN {s \in r.pass_sends : ~sends_nothing(s[1], s[2]) /\ io[s[1]] # "raise"}
    ELSE {}

\* one iteration of the loop of Observer.run whose fetches succeed
\* (__init__.py:86-208)
Cycle ==
    /\ Running
    /\ now < EndTime(config)
    /\ \E dt \in 1..MaxStep, products \in Fetches(config) :
       \E t \in {now + dt} :
       \E b \in {build_states(products, 1, [states |-> states, exc |-> "None"])} :
       \E r0 \in {dispatch_run(config, b.states, open_alerts, delayed_events, t, OkIO)} :
       \E io \in IOsFor(config, used_channels(r0)) :
       \E r \in {IF AllOk(io) THEN r0
                 ELSE dispatch_run(config, b.states, open_alerts, delayed_events, t, io)} :
       \E expected \in {isolated_failures(config, products[1],
                                          products[1].price_accounts[1], 0, t)} :
       \E running \in SUBSET unjoined_sends(r, io) :
              /\ now' = t
              /\ states' = b.states
              /\ config' = config
              /\ call' = call
              /\ IF b.exc # "None"
                 THEN /\ UNCHANGED <<open_alerts, delayed_events, alerts_file>>
                      /\ observer_ready' = ready_after(b.exc)
                      /\ last' = [NoLog EXCEPT !.kind = loop_kind(b.exc, "cycle"),
                                               !.exc = b.exc,
                                               !.stage = "build",
                                               !.expected = expected]
                      /\ steady' = Some({})
                      /\ last_failure' =
                             track_failures(open_alerts, last_failure, {}, FALSE, t)
                 ELSE /\ open_alerts' = r.alerts
                      /\ delayed_events' = r.delayed
                      /\ alerts_file' = IF r.written THEN json_dump(r.alerts)
                                        ELSE alerts_file
                      /\ observer_ready' = ready_after(r.exc)
                      /\ last' = [kind |-> loop_kind(r.exc, "cycle"),
                                  exc |-> r.exc, stage |-> r.stage,
                                  failed |-> r.failed, loop_sends |-> r.loop_sends,
                                  pass_sends |-> r.pass_sends, resolved |-> r.resolved,
                                  alerted |-> r.alerted,
                                  resolve_sent |-> r.resolve_sent,
                                  resolve_ok |-> r.resolve_ok, raised |-> r.raised,
                                  seen |-> r.seen, written |-> r.written,
                                  expected |-> expected,
                                  pass_failed |->
                                      {s \in r.pass_sends : outcome_of(s, io) # "ok"},
                                  in_flight |-> running, ran |-> r.ran]
                      /\ steady' = IF dt = 1 /\ r.exc = "None" /\ AllOk(io)
                                   THEN Some(IF IsNone(steady) THEN r.failed
                                             ELSE Val(steady) \cap r.failed)
                                   ELSE Some({})
                      /\ last_failure' =
                             track_failures(r.alerts, last_failure, r.failed,
                                            r.exc = "None" /\ AllOk(io), t)

\* an iteration whose fetch raises (get_pyth_products, get_coingecko_prices or
\* get_crosschain_prices): the except clause, __init__.py:204-208
FetchFails ==
    /\ Running
    /\ now < EndTime(config)
    /\ \E dt \in 1..MaxStep :
          /\ now' = now + dt
          /\ observer_ready' = IF caught_by_run("FetchError") THEN FALSE
                                ELSE observer_ready
          /\ last' = [NoLog EXCEPT !.kind = loop_kind("FetchError", "fetch_error"),
                                   !.exc = "FetchError", !.stage = "fetch"]
          /\ steady' = Some({})
          /\ last_failure' =
                 track_failures(open_alerts, last_failure, {}, FALSE, now + dt)
          /\ UNCHANGED <<config, open_alerts, delayed_events, alerts_file, states,
                         call>>

\* the process stops while a cycle writes the alert file (dispatch.py:303-304):
\* the file is left with the part of the document written so far
StopDuringWrite ==
    /\ Running
    /\ now < EndTime(config)
    /\ \E dt \in 1..MaxStep, products \in Fetches(config) :
       \E t \in {now + dt} :
       \E b \in {build_states(products, 1, [states |-> states, exc |-> "None"])} :
       \E r0 \in {dispatch_run(config, b.states, open_alerts, delayed_events, t, OkIO)} :
       \E io \in IOsFor(config, used_channels(r0)) :
       \E r \in {IF AllOk(io) THEN r0
                 ELSE dispatch_run(config, b.states, open_alerts, delayed_events, t, io)} :
       \E k \in 0..Len(r.alerts) :
              /\ b.exc = "None"
              /\ r.written
              /\ now' = t
              /\ states' = b.states
              /\ open_alerts' = r.alerts
              /\ delayed_events' = r.delayed
              /\ alerts_file' = partial_dump(r.alerts, k)
              /\ observer_ready' = FALSE
              /\ last' = [NoLog EXCEPT !.kind = "stopped", !.stage = "write",
                                       !.failed = r.failed]
              /\ steady' = Some({})
              /\ last_failure' = track_failures(r.alerts, last_failure, {}, FALSE, t)
              /\ config' = config
              /\ call' = call

\* the process is stopped and started again: Dispatch.__init__ reloads the
\* alert map from the file (dispatch.py:61-66); an exception of load_alerts
\* leaves the constructor
Restart ==
    /\ last.kind \in {"cycle", "fetch_error", "stopped"}
    /\ open_alerts' = IF HasDelayedEvents(config) /\ ~load_alerts_raises(alerts_file)
                      THEN load_alerts(alerts_file)
                      ELSE <<>>
    /\ delayed_events' = EmptyDict
    /\ states' = <<>>
    /\ observer_ready' = FALSE
    /\ last' = IF HasDelayedEvents(config) /\ load_alerts_raises(alerts_file)
               THEN [NoLog EXCEPT !.kind = "load_error", !.exc = "JSONDecodeError",
                                  !.stage = "load"]
               ELSE [NoLog EXCEPT !.kind = "restart"]
    /\ steady' = Some({})
    /\ last_failure' = track_failures(open_alerts', last_failure, {}, FALSE, now)
    /\ UNCHANGED <<config, now, alerts_file, call>>

----------------------------------------------------------------------------
(* send_zenduty_alert (zenduty.py:11-53), one POST per step *)

\* the HTTP statuses the Zenduty API answers with in the model
Statuses == {200, 204, 400, 429, 500}

\* session.post raises instead of answering (a transport error)
TransportError == -1

RECURSIVE Pow2(_)
Pow2(k) == IF k = 0 THEN 1 ELSE 2 * Pow2(k - 1)

Min(a, b) == IF a <= b THEN a ELSE b

\* a backoff without the cap
sleeptime_uncapped(retries) == Pow2(retries)

\* zenduty.py:36
sleeptime(retries) == Min(ZendutyMaxSleep, Pow2(retries))

\* zenduty.py:31
is_success(status) == 200 <= status /\ status < 300

\* the locals at zenduty.py:27-28, before the first POST
ZendutyCall ==
    [fn |-> "send_zenduty_alert", pc |-> "post", retries |-> 0,
     responses |-> <<>>, sleeps |-> <<>>, result |-> None]

\* one iteration of the while loop, zenduty.py:29-53
ZendutyPost ==
    /\ call.fn = "send_zenduty_alert"
    /\ call.pc = "post"
    /\ call.retries < ZendutyMaxRetries
    /\ \E status \in Statuses \cup {TransportError} :
          call' =
            IF status = TransportError
            THEN [call EXCEPT !.pc = "raised",
                              !.responses = Append(@, status)]
            ELSE IF is_success(status)
            THEN [call EXCEPT !.pc = "returned", !.result = Some(status),
                              !.responses = Append(@, status)]
            ELSE IF status = 429
            THEN IF call.retries + 1 < ZendutyMaxRetries
                 THEN [call EXCEPT !.retries = @ + 1,
                                   !.responses = Append(@, status),
                                   !.sleeps = Append(@, sleeptime(call.retries + 1))]
                 ELSE [call EXCEPT !.retries = @ + 1, !.pc = "returned",
                                   !.result = Some(status),
                                   !.responses = Append(@, status)]
            ELSE [call EXCEPT !.pc = "returned", !.result = Some(status),
                              !.responses = Append(@, status)]
    /\ UNCHANGED <<config, now, open_alerts, delayed_events, alerts_file, states,
                   observer_ready, last, steady, last_failure>>

InitZenduty ==
    /\ InitMain({FeedConfig(<<"LogEvent", "ZendutyEvent">>)})
    /\ call = ZendutyCall

\* a call of send_zenduty_alert; every POST is answered or fails in finite
\* time, and every sleep ends
SpecZenduty == InitZenduty /\ [][ZendutyPost]_vars /\ WF_vars(ZendutyPost)

----------------------------------------------------------------------------
(* PublisherStalledCheck, followed call by call *)

\* the positional arguments of the call at publisher.py:322 and the
\* parameters (besides self) of StallDetector.analyze_updates
AnalyzeUpdatesArguments == 2
AnalyzeUpdatesParameters == 1

\* the time between two cycles, in seconds
CycleSeconds == 60

\* the resolved configuration of PublisherStalledCheck; noise_threshold is
\* 1 / noise_threshold_inverse
StalledConfig ==
    [enable |-> TRUE, stall_time_limit |-> 300, abandoned_time_limit |-> 1800,
     max_slot_distance |-> 25, noise_threshold_inverse |-> 10000,
     min_noise_samples |-> 5]

\* the fields of PublisherState that PublisherStalledCheck.run reads
StalledState(price, market_open, asset_type, slot) ==
    [kind |-> "PublisherState", publisher_name |-> "pubA", symbol |-> "S1",
     market_open |-> market_open, asset_type |-> asset_type,
     latest_block_slot |-> 130, slot |-> slot, price |-> price]

\* a deque without maxlen
deque_append_unbounded(q, x) == Append(q, x)

\* deque(maxlen=PUBLISHER_CACHE_MAX_LEN).append
deque_append(q, x) ==
    IF Len(q) = PUBLISHER_CACHE_MAX_LEN THEN Append(Tail(q), x) ELSE Append(q, x)

\* StallDetectionResult.no_stall
\* (confidence is a fraction <<numerator, denominator>>)
no_stall ==
    [is_stalled |-> FALSE, stall_type |-> "None", duration |-> 0,
     confidence |-> <<0, 1>>]

\* the k-th smallest of a sequence of numbers
kth_smallest(prices, k) ==
    CHOOSE v \in {prices[i] : i \in 1..Len(prices)} :
        /\ Cardinality({i \in 1..Len(prices) : prices[i] < v}) < k
        /\ k <= Cardinality({i \in 1..Len(prices) : prices[i] <= v})

\* 2 * np.median(prices)
twice_median(prices) ==
    kth_smallest(prices, (Len(prices) + 1) \div 2)
    + kth_smallest(prices, (Len(prices) + 2) \div 2)

\* 2 * |base_price| * max_relative_deviation: the largest of |2 * price - 2 * base_price|
twice_max_deviation(prices, base2) ==
    CHOOSE d \in {Abs(2 * prices[i] - base2) : i \in 1..Len(prices)} :
        \A i \in 1..Len(prices) : Abs(2 * prices[i] - base2) <= d

\* a comparison that also takes a gap of exactly the limit for a stall
within_limit_strict(duration, stall_time_limit) == duration < stall_time_limit

\* stall_detection.py:101: the two latest updates are too close to judge
within_limit(duration, stall_time_limit) == duration <= stall_time_limit

\* StallDetector.analyze_updates(updates); with d = 2 * |base| * deviation,
\* deviation <= noise_threshold is d * noise_threshold_inverse <= 2 * |base|
\* and 1 - deviation / noise_threshold is
\* (2 * |base| - d * noise_threshold_inverse) / (2 * |base|)
analyze_updates(cfg, updates) ==
    IF Len(updates) < 2 THEN no_stall
    ELSE LET n == Len(updates)
             duration == updates[n].timestamp - updates[n - 1].timestamp
             prices == [i \in 1..n |-> updates[i].price]
             base2 == twice_median(prices)
             d == twice_max_deviation(prices, base2)
         IN  IF within_limit(duration, cfg.stall_time_limit) THEN no_stall
             ELSE IF updates[n].price = updates[n - 1].price
             THEN [is_stalled |-> TRUE, stall_type |-> "exact", duration |-> duration,
                   confidence |-> <<1, 1>>]
             ELSE IF base2 = 0 THEN no_stall
             ELSE IF n < cfg.min_noise_samples THEN no_stall
             ELSE IF d * cfg.noise_threshold_inverse <= Abs(base2)
             THEN [is_stalled |-> TRUE, stall_type |-> "noisy", duration |-> duration,
                   confidence |-> <<Abs(base2) - d * cfg.noise_threshold_inverse,
                                    Abs(base2)>>]
             ELSE [is_stalled |-> FALSE, stall_type |-> "None", duration |-> duration,
                   confidence |-> <<0, 1>>]

\* a call with a number of positional arguments that the function does not
\* take raises TypeError
call_raises(arguments, parameters) == arguments # parameters

\* a run that caches the price before it looks at the skips
PublisherStalledCheck_run_caches_first(state, cfg, updates, current_time) ==
    LET is_repeated_price ==
            Len(updates) > 0 /\ updates[Len(updates)].price = state.price
        cur_update == [timestamp |-> current_time, price |-> state.price]
        cached == IF is_repeated_price THEN updates
                  ELSE deque_append(updates, cur_update)
    IN  IF ~state.market_open THEN [result |-> "pass", cache |-> cached]
        ELSE IF state.asset_type = "Crypto Redemption Rate"
        THEN [result |-> "pass", cache |-> cached]
        ELSE IF state.latest_block_slot - state.slot >= cfg.max_slot_distance
        THEN [result |-> "pass", cache |-> cached]
        ELSE IF call_raises(AnalyzeUpdatesArguments, AnalyzeUpdatesParameters)
        THEN [result |-> "TypeError", cache |-> cached]
        ELSE LET result == analyze_updates(cfg, cached)
             IN  IF result.is_stalled /\ result.duration > cfg.abandoned_time_limit
                 THEN [result |-> "pass", cache |-> cached]
                 ELSE [result |-> IF result.is_stalled THEN "fail" ELSE "pass",
                       cache |-> cached]

\* PublisherStalledCheck.run at current_time with the cache entry `updates` of
\* the publisher: the outcome of the call and the cache entry after it
PublisherStalledCheck_run(state, cfg, updates, current_time) ==
    IF ~state.market_open THEN [result |-> "pass", cache |-> updates]
    ELSE IF state.asset_type = "Crypto Redemption Rate"
    THEN [result |-> "pass", cache |-> updates]
    ELSE IF state.latest_block_slot - state.slot >= cfg.max_slot_distance
    THEN [result |-> "pass", cache |-> updates]
    ELSE LET is_repeated_price ==
                 Len(updates) > 0 /\ updates[Len(updates)].price = state.price
             cur_update == [timestamp |-> current_time, price |-> state.price]
             cached == IF is_repeated_price THEN updates
                       ELSE deque_append(updates, cur_update)
         IN  IF call_raises(AnalyzeUpdatesArguments, AnalyzeUpdatesParameters)
             THEN [result |-> "TypeError", cache |-> cached]
             ELSE LET result == analyze_updates(cfg, cached)
                  IN  IF result.is_stalled /\ result.duration > cfg.abandoned_time_limit
                      THEN [result |-> "pass", cache |-> cached]
                      ELSE [result |-> IF result.is_stalled THEN "fail" ELSE "pass",
                            cache |-> cached]

\* PUBLISHER_CACHE is empty and no cycle has run
StalledCall ==
    [fn |-> "PublisherStalledCheck.run", cycle |-> 0, time |-> 0, cache |-> <<>>,
     result |-> "none", price |-> None, first |-> None, steady |-> TRUE,
     changes |-> 0]

\* the check of one publisher in the next cycle, CycleSeconds after the last
StalledCheckRun ==
    /\ call.fn = "PublisherStalledCheck.run"
    /\ call.cycle < StallCycles
    /\ \E price \in {100, 105}, market_open \in BOOLEAN,
          asset_type \in {"Crypto", "Crypto Redemption Rate"}, slot \in {100, 130} :
       \E changed \in {~IsNone(call.price) /\ Val(call.price) # price} :
       \E t \in {call.time + CycleSeconds} :
       \E r \in {PublisherStalledCheck_run(
                     StalledState(price, market_open, asset_type, slot),
                     StalledConfig, call.cache, t)} :
          /\ changed => call.changes < MaxPriceChanges
          /\ call' = [fn |-> call.fn, cycle |-> call.cycle + 1, time |-> t,
                      cache |-> r.cache, result |-> r.result, price |-> Some(price),
                      first |-> IF IsNone(call.first) THEN Some(t) ELSE call.first,
                      steady |-> /\ call.steady
                                 /\ ~changed
                                 /\ market_open
                                 /\ asset_type # "Crypto Redemption Rate"
                                 /\ 130 - slot < StalledConfig.max_slot_distance,
                      changes |-> call.changes + (IF changed THEN 1 ELSE 0)]
    /\ UNCHANGED <<config, now, open_alerts, delayed_events, alerts_file, states,
                   observer_ready, last, steady, last_failure>>

InitStalled ==
    /\ InitMain({PairConfig(<<"LogEvent", "ZendutyEvent">>)})
    /\ call = StalledCall

\* the calls of PublisherStalledCheck.run for one publisher, cycle after cycle
SpecStalled == InitStalled /\ [][StalledCheckRun]_vars

\* cache entries of the publisher before a call: empty, one price cached at
\* second 0, or a price change cached at second 60
CachesBefore ==
    {<<>>,
     <<[timestamp |-> 0, price |-> 100]>>,
     <<[timestamp |-> 0, price |-> 105], [timestamp |-> 60, price |-> 100]>>}

\* one call of PublisherStalledCheck.run: the publisher's state, the cache
\* entry before the call and int(time.time())
SkipCalls ==
    {[fn |-> "PublisherStalledCheck.run", pc |-> "called",
      state |-> StalledState(price, market_open, asset_type, slot),
      cfg |-> StalledConfig, time |-> t, cache |-> cache, cache_after |-> cache,
      result |-> None] :
        price \in {100, 105}, market_open \in BOOLEAN,
        asset_type \in {"Crypto", "Crypto Redemption Rate"},
        slot \in {100, 105, 106, 130}, t \in {120, 3600, 7200},
        cache \in CachesBefore}

\* PublisherStalledCheck(state, config).run() once
StalledCheckOnce ==
    /\ call.fn = "PublisherStalledCheck.run"
    /\ call.pc = "called"
    /\ \E r \in {PublisherStalledCheck_run(call.state, call.cfg, call.cache,
                                            call.time)} :
          call' = [call EXCEPT !.pc = "returned", !.result = Some(r.result),
                               !.cache_after = r.cache]
    /\ UNCHANGED <<config, now, open_alerts, delayed_events, alerts_file, states,
                   observer_ready, last, steady, last_failure>>

InitSkip ==
    /\ InitMain({PairConfig(<<"LogEvent", "ZendutyEvent">>)})
    /\ call \in SkipCalls

SpecSkip == InitSkip /\ [][StalledCheckOnce]_vars

\* prices within noise_threshold (1e-4) of the base price 1000000
JitterPrices == {1000000, 1000001}

\* PUBLISHER_CACHE is empty and no cycle has run; the publisher's price
\* will move within JitterPrices
JitterCall ==
    [fn |-> "PublisherStalledCheck.run", cycle |-> 0, time |-> 0, cache |-> <<>>,
     result |-> "none", price |-> None, first |-> None, jitter |-> TRUE,
     idle |-> 0]

\* the check of one publisher in the next cycle, CycleSeconds after the last;
\* at most MaxIdle of the calls leave the cache as it is
JitterCheckRun ==
    /\ call.fn = "PublisherStalledCheck.run"
    /\ call.cycle < StallCycles
    /\ \E price \in JitterPrices, market_open \in BOOLEAN,
          asset_type \in {"Crypto", "Crypto Redemption Rate"}, slot \in {100, 130} :
       \E t \in {call.time + CycleSeconds} :
       \E r \in {PublisherStalledCheck_run(
                     StalledState(price, market_open, asset_type, slot),
                     StalledConfig, call.cache, t)} :
       \E idle \in {r.cache = call.cache} :
          /\ idle => call.idle < MaxIdle
          /\ call' = [fn |-> call.fn, cycle |-> call.cycle + 1, time |-> t,
                      cache |-> r.cache, result |-> r.result, price |-> Some(price),
                      first |-> IF IsNone(call.first) THEN Some(t) ELSE call.first,
                      jitter |-> /\ call.jitter
                                 /\ IsNone(call.price) \/ Val(call.price) # price
                                 /\ market_open
                                 /\ asset_type # "Crypto Redemption Rate"
                                 /\ 130 - slot < StalledConfig.max_slot_distance,
                      idle |-> call.idle + (IF idle THEN 1 ELSE 0)]
    /\ UNCHANGED <<config, now, open_alerts, delayed_events, alerts_file, states,
                   observer_ready, last, steady, last_failure>>

InitJitter ==
    /\ InitMain({PairConfig(<<"LogEvent", "ZendutyEvent">>)})
    /\ call = JitterCall

\* the calls of PublisherStalledCheck.run for a publisher whose price moves
\* within the noise threshold
SpecJitter == InitJitter /\ [][JitterCheckRun]_vars

----------------------------------------------------------------------------
(* StallDetector.analyze_updates, applied to a list of updates *)

\* StallDetector(stall_time_limit = 5, noise_threshold = 1e-4,
\* min_noise_samples = 3)
DetectorConfig ==
    [stall_time_limit |-> 5, noise_threshold_inverse |-> 10000,
     min_noise_samples |-> 3]

\* the seconds between two updates of a list, and their prices
Gaps == {2, 5, 6}
DetectorPrices == {0, 20000, 20001, 20005}

\* the timestamp of the i-th update of a list with the gaps g
RECURSIVE TimeAt(_, _)
TimeAt(g, i) == IF i <= 1 THEN 0 ELSE TimeAt(g, i - 1) + g[i]

\* the lists of n PriceUpdate in the order of their timestamps
UpdatesOfLength(n) ==
    {[i \in 1..n |-> [timestamp |-> TimeAt(g, i), price |-> p[i]]] :
        g \in [2..n -> Gaps], p \in [1..n -> DetectorPrices]}

UpdateLists == UNION {UpdatesOfLength(n) : n \in 0..MaxUpdates}

\* the call detector.analyze_updates(updates) and its return
AnalyzeUpdates ==
    /\ call.fn = "analyze_updates"
    /\ call.pc = "called"
    /\ call' = [call EXCEPT !.pc = "returned",
                            !.result = Some(analyze_updates(call.cfg, call.updates))]
    /\ UNCHANGED <<config, now, open_alerts, delayed_events, alerts_file, states,
                   observer_ready, last, steady, last_failure>>

InitDetector ==
    /\ InitMain({PairConfig(<<"LogEvent", "ZendutyEvent">>)})
    /\ call \in {[fn |-> "analyze_updates", pc |-> "called", cfg |-> DetectorConfig,
                   updates |-> u, result |-> None] : u \in UpdateLists}

SpecDetector == InitDetector /\ [][AnalyzeUpdates]_vars

----------------------------------------------------------------------------
(* The checks, applied to one snapshot *)

\* a PriceFeedState
PriceFeedStateOf(market_open, status, block_slot, trading_slot, price, xc) ==
    [kind |-> "PriceFeedState", symbol |-> "S1", market_open |-> market_open,
     status |-> status, latest_block_slot |-> block_slot,
     latest_trading_slot |-> trading_slot, price_aggregate |-> price,
     confidence_interval_aggregate |-> 1, crosschain_price |-> xc]

\* the configurations of the slot distance checks
OfflineConfigs ==
    {[enable |-> TRUE, max_slot_distance |-> m, abandoned_slot_distance |-> 8] :
        m \in {2, 10}}

\* a check that is constructed and not run yet
CheckCall(type, state, cfg, t) ==
    [fn |-> type, pc |-> "called", state |-> state, cfg |-> cfg, time |-> t,
     result |-> None]

PriceFeedOfflineCalls ==
    {CheckCall("PriceFeedOfflineCheck",
               PriceFeedStateOf(market_open, status, block_slot, trading_slot, 100, None),
               cfg, 0) :
        market_open \in BOOLEAN, status \in {"TRADING", "UNKNOWN"},
        block_slot \in 0..MaxSlot, trading_slot \in {0, 5, MaxSlot},
        cfg \in OfflineConfigs}

\* PriceFeedOfflineCheck(state, config).run()
RunPriceFeedOffline ==
    /\ call.fn = "PriceFeedOfflineCheck"
    /\ call.pc = "called"
    /\ call' = [call EXCEPT !.pc = "returned",
                            !.result = Some(PriceFeedOfflineCheck(call.state, call.cfg))]
    /\ UNCHANGED <<config, now, open_alerts, delayed_events, alerts_file, states,
                   observer_ready, last, steady, last_failure>>

InitPriceFeedOffline ==
    /\ InitMain({FeedConfig(<<"LogEvent", "ZendutyEvent">>)})
    /\ call \in PriceFeedOfflineCalls

SpecPriceFeedOffline == InitPriceFeedOffline /\ [][RunPriceFeedOffline]_vars

\* a PublisherState
PublisherStateOf(market_open, status, aggregate_status, slot, aggregate_slot, block_slot, price, price_aggregate, confidence_interval) ==
    [kind |-> "PublisherState", publisher_name |-> "pubA", symbol |-> "S1",
     market_open |-> market_open, asset_type |-> "Crypto", status |-> status,
     aggregate_status |-> aggregate_status, slot |-> slot,
     aggregate_slot |-> aggregate_slot, latest_block_slot |-> block_slot,
     price |-> price, price_aggregate |-> price_aggregate,
     confidence_interval |-> confidence_interval,
     confidence_interval_aggregate |-> 1]

PublisherOfflineCalls ==
    {CheckCall("PublisherOfflineCheck",
               PublisherStateOf(market_open, "TRADING", "TRADING", slot, 5,
                                block_slot, 100, 100, 1),
               cfg, 0) :
        market_open \in BOOLEAN, block_slot \in 0..MaxSlot,
        slot \in {0, 5, MaxSlot}, cfg \in OfflineConfigs}

\* PublisherOfflineCheck(state, config).run()
RunPublisherOffline ==
    /\ call.fn = "PublisherOfflineCheck"
    /\ call.pc = "called"
    /\ call' = [call EXCEPT !.pc = "returned",
                            !.result = Some(PublisherOfflineCheck(call.state, call.cfg))]
    /\ UNCHANGED <<config, now, open_alerts, delayed_events, alerts_file, states,
                   observer_ready, last, steady, last_failure>>

InitPublisherOffline ==
    /\ InitMain({PairConfig(<<"LogEvent", "ZendutyEvent">>)})
    /\ call \in PublisherOfflineCalls

SpecPublisherOffline == InitPublisherOffline /\ [][RunPublisherOffline]_vars

PublisherPriceCalls ==
    {CheckCall("PublisherPriceCheck",
               PublisherStateOf(TRUE, status, aggregate_status, slot, 50, 50,
                                price, price_aggregate, confidence_interval),
               [enable |-> TRUE, max_aggregate_distance |-> d,
                max_slot_distance |-> 25], 0) :
        status \in {"TRADING", "UNKNOWN"}, aggregate_status \in {"TRADING", "UNKNOWN"},
        slot \in {24, 25, 50, 76}, price \in {0, 99, 100, 121},
        price_aggregate \in {-110, 0, 110}, confidence_interval \in {0, 2, 12},
        d \in {6, 10}}

\* PublisherPriceCheck(state, config).run()
RunPublisherPrice ==
    /\ call.fn = "PublisherPriceCheck"
    /\ call.pc = "called"
    /\ call' = [call EXCEPT !.pc = "returned",
                            !.result = Some(PublisherPriceCheck(call.state, call.cfg))]
    /\ UNCHANGED <<config, now, open_alerts, delayed_events, alerts_file, states,
                   observer_ready, last, steady, last_failure>>

InitPublisherPrice ==
    /\ InitMain({PairConfig(<<"LogEvent", "ZendutyEvent">>)})
    /\ call \in PublisherPriceCalls

SpecPublisherPrice == InitPublisherPrice /\ [][RunPublisherPrice]_vars

\* CrosschainPrice records, and None for a feed the price service does not have
CrosschainPrices ==
    {None} \cup
    {Some([price |-> 100, publish_time |-> p, snapshot_time |-> s]) :
        p \in {0, 10}, s \in 10 .. 17}

CrossChainOnlineCalls ==
    {CheckCall("PriceFeedCrossChainOnlineCheck",
               PriceFeedStateOf(market_open, status, 50, 50, 100, xc),
               [enable |-> TRUE, max_staleness |-> m], 0) :
        market_open \in BOOLEAN, status \in {"TRADING", "UNKNOWN"},
        xc \in CrosschainPrices, m \in {5, 6}}

\* PriceFeedCrossChainOnlineCheck(state, config).run()
RunCrossChainOnline ==
    /\ call.fn = "PriceFeedCrossChainOnlineCheck"
    /\ call.pc = "called"
    /\ call' = [call EXCEPT !.pc = "returned",
                            !.result = Some(PriceFeedCrossChainOnlineCheck(call.state,
                                                                          call.cfg))]
    /\ UNCHANGED <<config, now, open_alerts, delayed_events, alerts_file, states,
                   observer_ready, last, steady, last_failure>>

InitCrossChainOnline ==
    /\ InitMain({PairConfig(<<"LogEvent", "ZendutyEvent">>)})
    /\ call \in CrossChainOnlineCalls

SpecCrossChainOnline == InitCrossChainOnline /\ [][RunCrossChainOnline]_vars

\* int(time.time()) at the calls of the deviation check
DeviationNow == 100

DeviationCalls ==
    {CheckCall("PriceFeedCrossChainDeviationCheck",
               PriceFeedStateOf(market_open, status, 50, 50, price_aggregate, xc),
               [enable |-> TRUE, max_deviation |-> d, max_staleness |-> 60],
               DeviationNow) :
        market_open \in BOOLEAN, status \in {"TRADING", "UNKNOWN"},
        price_aggregate \in {-100, 0, 100},
        xc \in {None} \cup {Some([price |-> p, publish_time |-> DeviationNow - age]) :
                                p \in {0, 95, 100, 110}, age \in {60, 61}},
        d \in {5, 10}}

\* PriceFeedCrossChainDeviationCheck(state, config).run(): a verdict, or the
\* ZeroDivisionError of a division by a zero aggregate price
RunCrossChainDeviation ==
    /\ call.fn = "PriceFeedCrossChainDeviationCheck"
    /\ call.pc = "called"
    /\ call' = [call EXCEPT
                   !.pc = "returned",
                   !.result =
                       IF PriceFeedCrossChainDeviationCheckRaises(call.state, call.cfg,
                                                                  call.time)
                       THEN Some("ZeroDivisionError")
                       ELSE Some(PriceFeedCrossChainDeviationCheck(call.state, call.cfg,
                                                                   call.time))]
    /\ UNCHANGED <<config, now, open_alerts, delayed_events, alerts_file, states,
                   observer_ready, last, steady, last_failure>>

InitCrossChainDeviation ==
    /\ InitMain({PairConfig(<<"LogEvent", "ZendutyEvent">>)})
    /\ call \in DeviationCalls

SpecCrossChainDeviation == InitCrossChainDeviation /\ [][RunCrossChainDeviation]_vars

\* the calls of load_config that one run of the model follows
MaxCalls == 3

\* global entries of two check types, and the overrides of symbol S1
GlobalEntries ==
    [PriceFeedOfflineCheck |-> [enable |-> TRUE, max_slot_distance |-> 25,
                                abandoned_slot_distance |-> 100],
     PublisherOfflineCheck |-> [enable |-> TRUE, max_slot_distance |-> 25,
                                abandoned_slot_distance |-> 100]]

Overrides ==
    {[x \in {} |-> x],
     [enable |-> FALSE],
     [max_slot_distance |-> 3],
     [enable |-> FALSE, max_slot_distance |-> 3],
     [max_slot_distance |-> 3, alert_threshold |-> 1]}

\* config["checks"]: no entry for S1, an entry without the check type, or an
\* override of PriceFeedOfflineCheck
StoredChecks ==
    {[global |-> GlobalEntries, symbols |-> EmptyDict],
     [global |-> GlobalEntries,
      symbols |-> [s \in {"S1"} |-> [c \in {"PublisherOfflineCheck"} |-> [enable |-> FALSE]]]]}
    \cup {[global |-> GlobalEntries,
           symbols |-> [s \in {"S1"} |-> [c \in {"PriceFeedOfflineCheck"} |-> o]]] :
              o \in Overrides}

\* Dispatch.load_config(check_name, symbol), called again and again on one
\* Dispatch object; merged counts the calls so far that found an override
LoadConfig ==
    /\ call.fn = "load_config"
    /\ call.n < MaxCalls
    /\ \E check_name \in DOMAIN GlobalEntries, symbol \in {"S1", "S2"} :
          call' = [call EXCEPT
                      !.pc = "returned",
                      !.n = @ + 1,
                      !.check_name = check_name,
                      !.symbol = symbol,
                      !.merged = IF symbol \in DOMAIN call.checks.symbols
                                    /\ check_name \in DOMAIN call.checks.symbols[symbol]
                                 THEN @ + 1 ELSE @,
                      !.result = Some(load_config([checks |-> call.checks],
                                                  check_name, symbol)),
                      !.checks = load_config_stored([checks |-> call.checks],
                                                    check_name, symbol)]
    /\ UNCHANGED <<config, now, open_alerts, delayed_events, alerts_file, states,
                   observer_ready, last, steady, last_failure>>

InitLoadConfig ==
    /\ InitMain({PairConfig(<<"LogEvent", "ZendutyEvent">>)})
    /\ \E checks \in StoredChecks :
          call = [fn |-> "load_config", pc |-> "called", n |-> 0, checks |-> checks,
                  initial |-> checks, check_name |-> "", symbol |-> "",
                  merged |-> 0, result |-> None]

SpecLoadConfig == InitLoadConfig /\ [][LoadConfig]_vars

\* int(time.time()) at the calls of is_valid
ValidatorNow == 10000

\* PriceDeviationCrosschain objects: the cross-chain price is missing, or was
\* published 0, 1, 3600 or 3601 seconds ago
ValidatorCalls ==
    {[fn |-> "PriceDeviationCrosschain.is_valid", pc |-> "called",
      v |-> [crosschain_price |-> xc, price_status |-> status,
             pyth_price |-> pyth_price, time |-> ValidatorNow],
      result |-> None] :
        xc \in {None} \cup {Some([price |-> p, publish_time |-> ValidatorNow - age]) :
                                p \in {100, 104, 106}, age \in {0, 1, 3600, 3601}},
        status \in {"TRADING", "UNKNOWN"}, pyth_price \in {0, 10, 100}}

\* PriceDeviationCrosschain(...).is_valid()
RunPriceDeviationCrosschain ==
    /\ call.fn = "PriceDeviationCrosschain.is_valid"
    /\ call.pc = "called"
    /\ call' = [call EXCEPT !.pc = "returned",
                            !.result = Some(PriceDeviationCrosschain_is_valid(call.v))]
    /\ UNCHANGED <<config, now, open_alerts, delayed_events, alerts_file, states,
                   observer_ready, last, steady, last_failure>>

InitValidator ==
    /\ InitMain({PairConfig(<<"LogEvent", "ZendutyEvent">>)})
    /\ call \in ValidatorCalls

SpecValidator == InitValidator /\ [][RunPriceDeviationCrosschain]_vars

\* a product of the fetch with one price account: tombstone or not, ready
\* for production or not (min_publishers), with or without a publisher
ProductsOf(symbol) ==
    {[Product(None, <<[Account(Some("TRADING"), 100, 100, components)
                          EXCEPT !.min_publishers = Some(min_publishers)]>>)
         EXCEPT !.symbol = symbol, !.has_base = has_base] :
        has_base \in BOOLEAN, min_publishers \in {1, MinPublishersLimit},
        components \in {<<>>, <<Component(100)>>}}

\* the product lists of one cycle: one product, or two
ProductLists ==
    {<<p>> : p \in ProductsOf("S1")}
    \cup {<<p, q>> : p \in ProductsOf("S1"), q \in ProductsOf("S2")}

\* the loop over the products in one iteration of Observer.run
\* (__init__.py:98-193), up to the call of Dispatch.run: `passed` is the list
\* handed to Dispatch.run
BuildStates ==
    /\ call.fn = "Observer.run"
    /\ call.pc = "called"
    /\ \E b \in {build_states(call.products, 1, [states |-> <<>>, exc |-> "None"])} :
          call' = [call EXCEPT !.pc = "returned", !.passed = b.states]
    /\ UNCHANGED <<config, now, open_alerts, delayed_events, alerts_file, states,
                   observer_ready, last, steady, last_failure>>

InitBuild ==
    /\ InitMain({PairConfig(<<"LogEvent", "ZendutyEvent">>)})
    /\ \E products \in ProductLists :
          call = [fn |-> "Observer.run", pc |-> "called", products |-> products,
                  passed |-> <<>>]

SpecBuild == InitBuild /\ [][BuildStates]_vars

Next == Cycle \/ FetchFails

\* the three event configurations of the one-feed scenario
Init ==
    InitWith({FeedConfig(<<"LogEvent", "ZendutyEvent">>),
              FeedConfig(<<"DatadogEvent", "ZendutyEvent">>),
              FeedConfig(<<"ZendutyEvent", "TelegramEvent">>)})

Spec == Init /\ [][Next]_vars

\* a log channel and the incident channel
InitLogZenduty == InitWith({FeedConfig(<<"LogEvent", "ZendutyEvent">>)})
SpecLogZenduty == InitLogZenduty /\ [][Next]_vars

\* both hysteresis-gated channels
InitBothGated == InitWith({FeedConfig(<<"ZendutyEvent", "TelegramEvent">>)})
SpecBothGated == InitBothGated /\ [][Next]_vars

\* an immediate channel whose send can raise
InitDatadog == InitWith({FeedConfig(<<"DatadogEvent", "ZendutyEvent">>)})
SpecDatadog == InitDatadog /\ [][Next]_vars

\* a price feed and one publisher, two snapshots per cycle
InitPair == InitWith({PairConfig(<<"LogEvent", "ZendutyEvent">>)})
SpecPair == InitPair /\ [][Next]_vars

\* the incident channel over the long horizon
InitQuiet == InitWith({QuietConfig(<<"LogEvent", "ZendutyEvent">>)})
SpecQuiet == InitQuiet /\ [][Next]_vars

\* the chat channel alone: Dispatch.__init__ creates no delayed_events and
\* Dispatch.run never calls the resolution pass
InitTelegramOnly == InitWith({QuietConfig(<<"TelegramEvent">>)})
SpecTelegramOnly == InitTelegramOnly /\ [][Next]_vars

\* the publisher scenario with an immediate channel whose send can raise:
\* errors of the fetch, the build, the evaluation and the dispatch
InitErrors == InitWith({PairConfig(<<"DatadogEvent", "ZendutyEvent">>)})
SpecErrors == InitErrors /\ [][Next]_vars

\* stops during the write of the alert file, and restarts
SpecStop == InitLogZenduty /\ [][Next \/ StopDuringWrite \/ Restart]_vars

\* the publisher scenario with both hysteresis-gated channels: two sends
\* of one pass run at the same time
InitPairGated == InitWith({PairConfig(<<"ZendutyEvent", "TelegramEvent">>)})
SpecPairGated == InitPairGated /\ [][Next]_vars

\* restarts between cycles
\* a price feed with PriceFeedConfidenceIntervalCheck enabled
InitConfidence == InitWith({ConfidenceConfig(<<"LogEvent", "ZendutyEvent">>)})
SpecConfidence == InitConfidence /\ [][Next]_vars

SpecRestart == Init /\ [][Next \/ Restart]_vars

----------------------------------------------------------------------------
(* Properties *)

SteadyIds == IF IsNone(steady) THEN {} ELSE Val(steady)
SeenIds(log) == {log.seen[k].id : k \in 1..Len(log.seen)}
SeenRec(log, id) == log.seen[CHOOSE k \in 1..Len(log.seen) : log.seen[k].id = id]

\* C1: while a check fails in every cycle (cycles one minute apart, every
\* send delivered), a record whose alert has been raised is not resolved and
\* no resolution event is sent for it, also in the cycle that rolls the window.
C1_NoFlapping ==
    \A id \in SteadyIds \cap SeenIds(last) :
        SeenRec(last, id).sent =>
            /\ id \notin last.resolved
            /\ id \notin last.resolve_sent
            /\ Has(open_alerts, id)

\* C2: no ZendutyEvent or TelegramEvent is sent from the failed-check loop,
\* and the first notification of a record (sent = false so far) is sent in a
\* resolution pass in which its failures counter is at least alert_threshold.
C2_GatedOnlyAtThreshold ==
    /\ \A s \in last.loop_sends : s[1] \notin {"ZendutyEvent", "TelegramEvent"}
    /\ \A s \in last.pass_sends :
          /\ s[1] \in {"ZendutyEvent", "TelegramEvent"}
          /\ s[2] \in SeenIds(last)
          /\ ~SeenRec(last, s[2]).sent =>
                 SeenRec(last, s[2]).failures >= DefaultAlertThreshold

C2_Witness ==
    \E s \in last.pass_sends :
        /\ s[1] = "ZendutyEvent"
        /\ ~SeenRec(last, s[2]).sent
        /\ SeenRec(last, s[2]).failures >= DefaultAlertThreshold

\* the resolution condition as the code evaluates it, written out on the fields
LastWindowLow(a) ==
    /\ a.last_window_failures # <<>>
    /\ a.last_window_failures[1] <= DefaultResolutionThreshold
CurrentWindowLow(a) ==
    /\ a.sent
    /\ a.failures <= DefaultResolutionThreshold
    /\ a.failures < DefaultAlertThreshold

\* what the pass did with record a: a resolution event for a raised record,
\* removal (once the pass has completed) for one that was never raised
TreatedAsResolved(a) ==
    IF a.sent THEN a.id \in last.resolve_sent ELSE ~Has(open_alerts, a.id)
Decided(a) == a.sent \/ last.exc = "None"

FailedDeliveries(log) == log.resolve_sent \ log.resolve_ok

AfterCycle(id) ==
    IF id \in SeenIds(last') THEN SeenRec(last', id) ELSE Get(open_alerts', id)

Handled(id) == id \in last'.failed \/ id \in SeenIds(last')

\* C5: a cycle at time t that handles a record whose window started at least
\* 5 minutes before t sets last_window_failures to the failures it had,
\* window_start to t, and failures to 1 if the check failed in the cycle and
\* to 0 if not; otherwise window_start and last_window_failures are unchanged.
C5_Rollover ==
    [][\A i \in 1..Len(open_alerts) :
          (last'.kind = "cycle" /\ Handled(open_alerts[i].id)) =>
              IF now' - open_alerts[i].window_start >= WindowMinutes
              THEN /\ AfterCycle(open_alerts[i].id).last_window_failures
                          = <<open_alerts[i].failures>>
                   /\ AfterCycle(open_alerts[i].id).window_start = now'
                   /\ AfterCycle(open_alerts[i].id).failures
                          = (IF open_alerts[i].id \in last'.failed THEN 1 ELSE 0)
              ELSE /\ AfterCycle(open_alerts[i].id).window_start
                          = open_alerts[i].window_start
                   /\ AfterCycle(open_alerts[i].id).last_window_failures
                          = open_alerts[i].last_window_failures
      ]_vars

\* C6: a cycle in which a check fails adds exactly 1 to the failures of its
\* record (a new record starts at 1, a rolled one restarts at 1), and a cycle
\* in which it passes does not increment it.
C6_OnePerFailure ==
    [][last'.kind = "cycle" =>
          /\ \A id \in last'.failed :
                AfterCycle(id).failures =
                    (IF Has(open_alerts, id)
                        /\ now' - Get(open_alerts, id).window_start < WindowMinutes
                     THEN Get(open_alerts, id).failures + 1
                     ELSE 1)
          /\ \A i \in 1..Len(open_alerts) :
                (open_alerts[i].id \notin last'.failed
                    /\ Has(open_alerts', open_alerts[i].id)) =>
                    Get(open_alerts', open_alerts[i].id).failures
                        <= open_alerts[i].failures
      ]_vars

Reraised(a) == a.id \in last.raised /\ a.last_alert # <<>>

\* C7 as claimed: two raises for the same unresolved record are at least one
\* hour apart.
C7_Original ==
    \A k \in 1..Len(last.seen) :
        Reraised(last.seen[k]) =>
            now - last.seen[k].last_alert[1] >= MinutesPerHour

\* C7 amended: a raise after the first one for the same unresolved record
\* happens only in minute 0 of an hour and more than 5 minutes after the
\* previous raise, so there is at most one re-raise per clock hour.
C7_RealertCadence ==
    \A k \in 1..Len(last.seen) :
        Reraised(last.seen[k]) =>
            /\ now - last.seen[k].last_alert[1] > RealertMinutes
            /\ now % MinutesPerHour = 0

C7_Witness ==
    \E k \in 1..Len(last.seen) :
        /\ Reraised(last.seen[k])
        /\ <<"ZendutyEvent", last.seen[k].id>> \in last.pass_sends

\* the first window is closed by the first cycle at or after its 5 minutes,
\* at most MaxStep - 1 minutes late, and the record is last present one
\* minute before the second window is 5 minutes old
QuietLimit == 2 * WindowMinutes + MaxStep - 1

\* C8: recovery is detected without a fresh failure: while the cycles keep
\* running to their end and every send is delivered, an open record whose
\* check has not failed again is removed by the cycle that closes the
\* second window after the latest failure.
C8_RecoveryDetected ==
    \A id \in DOMAIN last_failure :
        ~IsNone(last_failure[id]) => now - Val(last_failure[id]) < QuietLimit

\* a record that was never raised is removed by a cycle in which its check
\* did not fail
C8_Witness ==
    /\ last.kind = "cycle"
    /\ last.exc = "None"
    /\ \E id \in last.resolved \ last.failed : id \notin last.resolve_sent

\* C9: a failing notification send does not abort the cycle: every cycle
\* that reaches its sends also runs the resolution pass and writes the file.
C9_SendFailureContained ==
    (last.kind = "cycle" /\ last.stage \notin {"build", "evaluate"}) =>
        /\ last.exc = "None"
        /\ last.written

\* C10: an error in building or evaluating one snapshot leaves the other
\* snapshots of the cycle evaluated and their failures dispatched.
C10_SnapshotIsolation ==
    last.kind = "cycle" => last.expected \subseteq last.failed

\* C11: every exception of the fetch, the build, the evaluation or the
\* dispatch of a cycle is caught by Observer.run: the process stays in the
\* loop with readiness false, another cycle can start, and readiness is
\* true only after a cycle whose fetches succeeded and that ran to its end.
C11_ErrorsCaught ==
    /\ last.exc # "None" => (~observer_ready /\ Running)
    /\ (last.exc # "None" /\ now < EndTime(config)) => ENABLED Cycle
    /\ observer_ready => (last.kind = "cycle" /\ last.exc = "None")

\* a cycle that ended with an exception of the dispatch, readiness false
C11_Witness ==
    /\ last.kind = "cycle"
    /\ last.stage = "gather"
    /\ last.exc = "SendError"
    /\ ~observer_ready

\* C12: at the end of every cycle in which Dispatch.run was called, the alert
\* file holds exactly the open_alerts map in memory, so that a restart at the
\* cycle boundary reloads the map of the last cycle.
C12_FileIsMemory ==
    (last.kind = "cycle" /\ last.stage # "build") =>
        load_alerts(alerts_file) = open_alerts

\* C13: the alert file is replaced as a whole: whenever the process stops,
\* the file holds a complete document, and load_alerts succeeds at the next
\* start.
C13_WholeFileReplace ==
    /\ alerts_file.exists => alerts_file.complete
    /\ last.kind # "load_error"

Removed(log) ==
    {id \in log.resolved :
        log.written /\ (id \notin log.resolve_sent \/ id \in log.resolve_ok)}

\* nothing is left of the identifier in the result p of a pass
Untouched(p, id) ==
    /\ ~Has(p.alerts, id)
    /\ \A key \in DOMAIN p.delayed : key[2] # id
    /\ id \notin p.resolved \cup p.resolve_sent \cup p.raised

\* C15: resolution idempotence: once the pass has deleted a record, the pass
\* applied again to the resulting state finds nothing of the identifier, and a
\* further cycle in which the check does not fail neither recreates the
\* record nor sends another resolution event for it.
C15_ResolutionIdempotent ==
    [][\A id \in Removed(last) :
          /\ Untouched(process_zenduty_events(config, open_alerts, delayed_events,
                                               now, OkIO), id)
          /\ (last'.kind = "cycle" /\ id \notin last'.failed) =>
                 /\ ~Has(open_alerts', id)
                 /\ \A key \in DOMAIN delayed_events' : key[2] # id
                 /\ id \notin last'.resolved \cup last'.resolve_sent
                 /\ \A s \in last'.pass_sends \cup last'.loop_sends : s[2] # id]_vars

\* a cycle whose pass has delivered a resolution event and deleted the record,
\* with time left for a further cycle
C15_Witness ==
    /\ \E id \in Removed(last) : id \in last.resolve_ok
    /\ now < EndTime(config)

\* C16: a record's sent flag becomes true only when an alert notification for
\* the identifier was delivered: after a cycle, a record that was not in the
\* sent state before and is in it now has had a notification started in the
\* pass of the cycle, and none of its notifications has failed.
C16_SentMeansDelivered ==
    [][last'.kind = "cycle" =>
          \A i \in 1..Len(open_alerts') :
             LET a == open_alerts'[i]
             IN  (a.sent /\ ~(Has(open_alerts, a.id) /\ Get(open_alerts, a.id).sent)) =>
                    /\ \E s \in last'.pass_sends : s[2] = a.id
                    /\ \A s \in last'.pass_failed : s[2] # a.id]_vars

\* the state of a call of send_zenduty_alert
ZendutyInv ==
    call.fn = "send_zenduty_alert" =>
        /\ Len(call.responses) <= ZendutyMaxRetries
        /\ \A k \in 1..Len(call.responses) - 1 : call.responses[k] = 429
        /\ \A k \in 1..Len(call.sleeps) :
              call.sleeps[k] = Min(ZendutyMaxSleep, Pow2(k))
        /\ Len(call.sleeps) =
              Cardinality({k \in 1..Len(call.responses) :
                              call.responses[k] = 429 /\ k < ZendutyMaxRetries})
        /\ call.pc = "returned" =>
              call.result = Some(call.responses[Len(call.responses)])
        /\ call.pc = "raised" =>
              call.responses[Len(call.responses)] = TransportError
        /\ call.pc = "post" => Len(call.responses) < ZendutyMaxRetries

\* C17: send_zenduty_alert terminates: at most 30 POSTs, a further POST only
\* after a 429, a sleep of min(30, 2^k) seconds after the k-th 429 and none
\* after the 30th, and the response of the last POST is returned for a 2xx,
\* for any other status and when the attempts are used up; only an error of
\* the transport raises.
C17_ZendutyTerminates ==
    /\ []ZendutyInv
    /\ <>(call.pc # "post")

\* the call returns the 30th 429 after 29 sleeps
C17_Witness ==
    /\ call.fn = "send_zenduty_alert"
    /\ call.pc = "returned"
    /\ call.result = Some(429)
    /\ Len(call.responses) = ZendutyMaxRetries
    /\ Len(call.sleeps) = ZendutyMaxRetries - 1

\* C18: cycles do not overlap and sends are joined: when a cycle ends, and so
\* when the next one starts, no send started in it is still running, also
\* when one of the concurrent sends has failed.
C18_SendsJoined ==
    last.kind = "cycle" => last.in_flight = {}

\* the check classes of the family of a snapshot
FamilyOf(state) ==
    IF state.kind = "PriceFeedState" THEN PriceFeedCheckClasses
    ELSE PublisherCheckClasses

\* how often run() of class c was called for snapshot i
RunCount(ran, c, i) == Cardinality({k \in 1..Len(ran) : ran[k] = <<c, i>>})

\* the identifier c has no failure, no alert record and no notification
Silent(id) ==
    /\ id \notin last.failed
    /\ ~Has(open_alerts, id)
    /\ id \notin last.resolve_sent
    /\ \A s \in last.loop_sends \cup last.pass_sends : s[2] # id

\* C19: for every snapshot passed to Dispatch.run, every check class of the
\* snapshot's family whose resolved configuration has enable = true is run
\* exactly once, and a class whose resolved enable flag is false is never run
\* and has no failure, no alert record and no notification.
C19_EnabledChecksRunOnce ==
    (last.kind = "cycle" /\ last.stage # "build") =>
        \A i \in 1..Len(states) : \A c \in FamilyOf(states[i]) :
            IF load_config(config, c, states[i].symbol).enable
            THEN RunCount(last.ran, c, i) = 1
            ELSE /\ RunCount(last.ran, c, i) = 0
                 /\ Silent(generate_alert_identifier([type |-> c, state |-> states[i]]))

\* the publisher has reported one price in every cycle so far, with the
\* market open, an asset that is no redemption rate, and its slot close to
\* the latest block slot
SamePriceSoFar ==
    /\ call.fn = "PublisherStalledCheck.run"
    /\ call.cycle > 0
    /\ call.steady

\* the time since the price was first observed
Elapsed == call.time - Val(call.first)

\* C20: for a publisher reporting the same price on every cycle,
\* PublisherStalledCheck passes while the time since the price was first
\* observed is below stall_time_limit, fails while it is at least
\* stall_time_limit and below abandoned_time_limit, and passes again once it
\* is at least abandoned_time_limit.
C20_StalledPassFailPass ==
    SamePriceSoFar =>
        call.result =
            (IF Elapsed < StalledConfig.stall_time_limit THEN "pass"
             ELSE IF Elapsed < StalledConfig.abandoned_time_limit THEN "fail"
             ELSE "pass")

\* analyze_updates has returned
DetectorReturned == call.fn = "analyze_updates" /\ call.pc = "returned"

\* the seconds between the two latest updates of the call
LatestGap ==
    call.updates[Len(call.updates)].timestamp
    - call.updates[Len(call.updates) - 1].timestamp

\* the two latest updates of the call have the same price
LatestPricesEqual ==
    call.updates[Len(call.updates)].price = call.updates[Len(call.updates) - 1].price

\* C21: exact stall: with fewer than two samples, or with the two latest
\* updates at most stall_time_limit seconds apart, analyze_updates returns
\* "no stall" whatever the prices; with the two latest updates more than
\* stall_time_limit apart and of equal price it returns is_stalled = true,
\* stall_type = exact and confidence = 1.
C21_ExactStall ==
    DetectorReturned =>
        /\ Len(call.updates) < 2 => call.result = Some(no_stall)
        /\ (Len(call.updates) >= 2 /\ LatestGap <= call.cfg.stall_time_limit)
               => call.result = Some(no_stall)
        /\ (Len(call.updates) >= 2 /\ LatestGap > call.cfg.stall_time_limit
                /\ LatestPricesEqual)
               => /\ Val(call.result).is_stalled
                  /\ Val(call.result).stall_type = "exact"
                  /\ Val(call.result).confidence = <<1, 1>>

\* a gap of stall_time_limit + 1 between two equal prices is an exact stall
C21_Witness ==
    /\ DetectorReturned
    /\ Len(call.updates) >= 2
    /\ LatestGap = call.cfg.stall_time_limit + 1
    /\ LatestPricesEqual
    /\ Val(call.result).is_stalled
    /\ Val(call.result).stall_type = "exact"

\* the seconds between the first and the latest update of the call
WindowSpan == call.updates[Len(call.updates)].timestamp - call.updates[1].timestamp

\* twice the median of the prices of the call
WindowMedian2 == twice_median([i \in 1..Len(call.updates) |-> call.updates[i].price])

\* every price of the call is within noise_threshold of the median, as a
\* relative deviation
WithinNoise ==
    /\ WindowMedian2 # 0
    /\ \A i \in 1..Len(call.updates) :
           Abs(2 * call.updates[i].price - WindowMedian2)
               * call.cfg.noise_threshold_inverse <= Abs(WindowMedian2)

\* the fraction c is 1 - max_relative_deviation / noise_threshold
IsNoiseConfidence(c) ==
    /\ c[2] = Abs(WindowMedian2)
    /\ \E i \in 1..Len(call.updates) :
           c[1] = Abs(WindowMedian2)
                  - Abs(2 * call.updates[i].price - WindowMedian2)
                        * call.cfg.noise_threshold_inverse
    /\ \A i \in 1..Len(call.updates) :
           c[1] <= Abs(WindowMedian2)
                   - Abs(2 * call.updates[i].price - WindowMedian2)
                         * call.cfg.noise_threshold_inverse

\* the result for a window whose two latest prices differ, given that the
\* window is long enough in time
NoisyResult(long_enough) ==
    (DetectorReturned /\ Len(call.updates) >= 2 /\ ~LatestPricesEqual) =>
        /\ (Len(call.updates) >= call.cfg.min_noise_samples /\ long_enough
                /\ WithinNoise)
               => /\ Val(call.result).is_stalled
                  /\ Val(call.result).stall_type = "noisy"
                  /\ IsNoiseConfidence(Val(call.result).confidence)
                  /\ 0 <= Val(call.result).confidence[1]
                  /\ Val(call.result).confidence[1] <= Val(call.result).confidence[2]
        /\ (Len(call.updates) < call.cfg.min_noise_samples \/ ~WithinNoise)
               => ~Val(call.result).is_stalled

\* C22: noisy stall: for a window of at least min_noise_samples updates that
\* spans more than stall_time_limit, whose two latest prices differ and whose
\* prices are all within noise_threshold of the window median, analyze_updates
\* returns is_stalled = true, stall_type = noisy and confidence =
\* 1 - max_relative_deviation / noise_threshold in [0, 1]; with fewer than
\* min_noise_samples updates, a median of 0 or a larger deviation it returns
\* is_stalled = false.
C22_NoisyStall == NoisyResult(WindowSpan > call.cfg.stall_time_limit)

\* the publisher's price has changed in every cycle so far, within the noise
\* threshold, with the market open, an asset that is no redemption rate, and
\* its slot close to the latest block slot
JitterSoFar ==
    /\ call.fn = "PublisherStalledCheck.run"
    /\ call.cycle > 0
    /\ call.jitter

\* C23: a publisher whose price changes slightly on every cycle within
\* noise_threshold of a base price fails PublisherStalledCheck once the jitter
\* has lasted longer than stall_time_limit and at least min_noise_samples
\* observations are cached.
C23_JitterFails ==
    (JitterSoFar
        /\ call.time - Val(call.first) > StalledConfig.stall_time_limit
        /\ Len(call.cache) >= StalledConfig.min_noise_samples)
    => call.result = "fail"

\* no two adjacent entries of the history q have the same price
NoAdjacentRepeat(q) == \A i \in 1..(Len(q) - 1) : q[i].price # q[i + 1].price

\* the history after a call: unchanged, or one update more at its end, at the
\* cost of the oldest entry when it was full
CacheStep(old, new) ==
    \/ new = old
    \/ /\ Len(old) < PUBLISHER_CACHE_MAX_LEN
       /\ Len(new) = Len(old) + 1
       /\ SubSeq(new, 1, Len(old)) = old
    \/ /\ Len(old) = PUBLISHER_CACHE_MAX_LEN
       /\ Len(new) = PUBLISHER_CACHE_MAX_LEN
       /\ SubSeq(new, 1, Len(new) - 1) = Tail(old)

\* C24: after any sequence of PublisherStalledCheck.run calls the cached
\* history of a (publisher, symbol) key holds at most 30 updates, the oldest
\* is evicted first when it is full, and no two adjacent entries have the
\* same price.
C24_CacheBounded ==
    [][call.fn = "PublisherStalledCheck.run" =>
          /\ Len(call'.cache) <= PUBLISHER_CACHE_MAX_LEN
          /\ NoAdjacentRepeat(call'.cache)
          /\ CacheStep(call.cache, call'.cache)]_vars

\* the history is full and its oldest entries have been evicted
C24_Witness ==
    /\ call.fn = "PublisherStalledCheck.run"
    /\ Len(call.cache) = PUBLISHER_CACHE_MAX_LEN
    /\ call.cache[1].timestamp > Val(call.first) + CycleSeconds

\* the check of the call has returned
Returned(type) == call.fn = type /\ call.pc = "returned"

\* |latest_block_slot - latest_trading_slot| of the call
FeedDistance == Abs(call.state.latest_block_slot - call.state.latest_trading_slot)

\* C25 as stated: with the market open and status Trading,
\* PriceFeedOfflineCheck.run is false for every distance strictly between
\* max_slot_distance and abandoned_slot_distance and true for every distance
\* at or below max_slot_distance or at or above abandoned_slot_distance.
C25_Original ==
    (Returned("PriceFeedOfflineCheck") /\ call.state.market_open
        /\ call.state.status = "TRADING")
    => (Val(call.result) = FALSE
           <=> /\ call.cfg.max_slot_distance < FeedDistance
               /\ FeedDistance < call.cfg.abandoned_slot_distance)

\* C25 amended: with the market open, PriceFeedOfflineCheck.run is false
\* exactly for max_slot_distance <= distance <= abandoned_slot_distance, both
\* bounds included, and true for every other distance; with the market
\* closed it is true.
C25_OfflineInclusive ==
    Returned("PriceFeedOfflineCheck") =>
        (Val(call.result) = FALSE
            <=> /\ call.state.market_open
                /\ call.cfg.max_slot_distance <= FeedDistance
                /\ FeedDistance <= call.cfg.abandoned_slot_distance)

\* the check fails at a distance of exactly max_slot_distance
C25_Witness ==
    /\ Returned("PriceFeedOfflineCheck")
    /\ call.state.market_open
    /\ call.state.status = "TRADING"
    /\ FeedDistance = call.cfg.max_slot_distance
    /\ Val(call.result) = FALSE

\* latest_block_slot - slot of the call
PublisherDistance == call.state.latest_block_slot - call.state.slot

\* C26: PublisherOfflineCheck: with the market open run() fails exactly when
\* max_slot_distance <= latest_block_slot - slot <= abandoned_slot_distance,
\* both bounds included, and passes for every other distance, zero included;
\* with the market closed it passes for every distance.
C26_PublisherOffline ==
    Returned("PublisherOfflineCheck") =>
        (Val(call.result) = FALSE
            <=> /\ call.state.market_open
                /\ call.cfg.max_slot_distance <= PublisherDistance
                /\ PublisherDistance <= call.cfg.abandoned_slot_distance)

\* the check fails at a distance of exactly abandoned_slot_distance
C26_Witness ==
    /\ Returned("PublisherOfflineCheck")
    /\ call.state.market_open
    /\ PublisherDistance = call.cfg.abandoned_slot_distance
    /\ Val(call.result) = FALSE

\* max(|price - aggregate| - publisher confidence, 0) of the call
BandDiff ==
    LET diff == Abs(call.state.price - call.state.price_aggregate)
                - call.state.confidence_interval
    IN  IF diff > 0 THEN diff ELSE 0

\* BandDiff / aggregate * 100 > max_aggregate_distance, for a non-zero aggregate
BandDiffExceeds ==
    IF call.state.price_aggregate > 0
    THEN BandDiff * 100 > call.cfg.max_aggregate_distance * call.state.price_aggregate
    ELSE BandDiff * 100 < call.cfg.max_aggregate_distance * call.state.price_aggregate

\* C27: PublisherPriceCheck.run fails exactly when publisher and aggregate
\* status are both Trading, |slot - aggregate_slot| <= max_slot_distance, both
\* prices are non-zero and max(|price - aggregate| - publisher confidence, 0)
\* / aggregate * 100 > max_aggregate_distance; an aggregate inside the
\* publisher's own confidence band never fails.
C27_PublisherPrice ==
    Returned("PublisherPriceCheck") =>
        /\ Val(call.result) = FALSE
               <=> /\ call.state.status = "TRADING"
                   /\ call.state.aggregate_status = "TRADING"
                   /\ Abs(call.state.slot - call.state.aggregate_slot)
                          <= call.cfg.max_slot_distance
                   /\ call.state.price # 0
                   /\ call.state.price_aggregate # 0
                   /\ BandDiffExceeds
        /\ Abs(call.state.price - call.state.price_aggregate)
               <= call.state.confidence_interval
           => Val(call.result) = TRUE

\* price 100 with confidence 2 against aggregate 110 fails with
\* max_aggregate_distance 6
C27_Witness ==
    /\ Returned("PublisherPriceCheck")
    /\ call.state.price = 100
    /\ call.state.confidence_interval = 2
    /\ call.state.price_aggregate = 110
    /\ call.cfg.max_aggregate_distance = 6
    /\ Val(call.result) = FALSE

\* the feed is Trading and its market is open
FeedLive == call.state.status = "TRADING" /\ call.state.market_open

\* the cross-chain record has a publish_time and snapshot_time - publish_time
\* is at least max_staleness
RecordStale ==
    /\ ~IsNone(call.state.crosschain_price)
    /\ Val(call.state.crosschain_price).publish_time # 0
    /\ Val(call.state.crosschain_price).snapshot_time
           - Val(call.state.crosschain_price).publish_time >= call.cfg.max_staleness

\* C28 as stated: the check passes whenever the feed is not Trading, there is
\* no cross-chain record, the record's publish_time is zero or the market is
\* closed, and otherwise fails exactly when
\* snapshot_time - publish_time >= max_staleness.
C28_Original ==
    Returned("PriceFeedCrossChainOnlineCheck") =>
        (Val(call.result) = FALSE <=> FeedLive /\ RecordStale)

\* C28: PriceFeedCrossChainOnlineCheck.run passes whenever the feed is not
\* Trading or the market is closed; otherwise it fails when there is no
\* cross-chain record, passes when the record's publish_time is zero, and
\* otherwise fails exactly when snapshot_time - publish_time >= max_staleness.
C28_CrossChainOnline ==
    Returned("PriceFeedCrossChainOnlineCheck") =>
        (Val(call.result) = FALSE
            <=> FeedLive /\ (IsNone(call.state.crosschain_price) \/ RecordStale))

\* a Trading feed with an open market and no cross-chain record fails
C28_Witness ==
    /\ Returned("PriceFeedCrossChainOnlineCheck")
    /\ FeedLive
    /\ IsNone(call.state.crosschain_price)
    /\ Val(call.result) = FALSE

\* none of the check's skips applies: there is a cross-chain record, the feed
\* is Trading, the market is open and the record is not older than max_staleness
DeviationCompared ==
    /\ ~IsNone(call.state.crosschain_price)
    /\ FeedLive
    /\ call.time - Val(call.state.crosschain_price).publish_time
           <= call.cfg.max_staleness

\* |cross-chain price - aggregate| / aggregate * 100 >= max_deviation, for a
\* non-zero aggregate
DeviationReached ==
    LET gap == Abs(Val(call.state.crosschain_price).price - call.state.price_aggregate)
    IN  IF call.state.price_aggregate > 0
        THEN gap * 100 >= call.cfg.max_deviation * call.state.price_aggregate
        ELSE gap * 100 <= call.cfg.max_deviation * call.state.price_aggregate

StoredEventsStep ==
    \A key \in DOMAIN delayed_events' :
        IF key[2] \in last'.failed
        THEN delayed_events'[key].built = now'
        ELSE /\ key \in DOMAIN delayed_events
             /\ delayed_events'[key] = delayed_events[key]

\* every event sent for a raised alert is the one stored at that moment: the
\* event built in this cycle when the check failed in it, and else the event
\* that was stored before the cycle
SentEventsStep ==
    \A s \in last'.alerted :
        /\ s[2] \in last'.raised
        /\ IF s[2] \in last'.failed
           THEN s[3] = now'
           ELSE /\ <<s[1], s[2]>> \in DOMAIN delayed_events
                /\ delayed_events[<<s[1], s[2]>>].built = s[3]

\* C30: when an alert is raised for an identifier, the event sent on each
\* hysteresis-gated channel is the one built in the most recent cycle in which
\* that check failed: each failing cycle overwrites the stored event with its
\* own, no other step changes a stored event, and a raise sends the stored
\* event, so the events stored in earlier failing cycles are never sent.
C30_LatestEventSent == [][StoredEventsStep /\ SentEventsStep]_vars

\* an alert is raised in a cycle after earlier failing cycles: the event sent
\* on a gated channel is the one this cycle built
C30_Witness ==
    \E s \in last.alerted :
        /\ s[3] = now
        /\ s[2] \in last.failed
        /\ Has(open_alerts, s[2])
        /\ Get(open_alerts, s[2]).failures >= DefaultAlertThreshold

\* the override of the call's check type for the call's symbol in the
\* configuration the Dispatch object was built with, or None
OverrideOf ==
    IF call.symbol \in DOMAIN call.initial.symbols
       /\ call.check_name \in DOMAIN call.initial.symbols[call.symbol]
    THEN Some(call.initial.symbols[call.symbol][call.check_name])
    ELSE None

\* C31: load_config(check_name, symbol) returns the global entry of the check
\* type with the symbol's override for that check type merged shallowly on top
\* (override keys win, the other global keys are kept), returns the global
\* entry unchanged in value when no override exists, and never modifies the
\* stored configuration, whatever the sequence of calls.
C31_LoadConfig ==
    Returned("load_config") =>
        LET g == call.initial.global[call.check_name]
            r == Val(call.result)
        IN  /\ call.checks = call.initial
            /\ IsNone(OverrideOf) => r = g
            /\ ~IsNone(OverrideOf) =>
                   /\ DOMAIN r = DOMAIN g \cup DOMAIN Val(OverrideOf)
                   /\ \A k \in DOMAIN Val(OverrideOf) : r[k] = Val(OverrideOf)[k]
                   /\ \A k \in DOMAIN g \ DOMAIN Val(OverrideOf) : r[k] = g[k]

\* after a call that merged an override, a later call for a symbol without one
\* returns the global entry
C31_Witness ==
    /\ Returned("load_config")
    /\ call.merged > 0
    /\ call.symbol = "S2"
    /\ call.check_name = "PriceFeedOfflineCheck"
    /\ "S1" \in DOMAIN call.initial.symbols
    /\ "PriceFeedOfflineCheck" \in DOMAIN call.initial.symbols["S1"]
    /\ call.initial.symbols["S1"]["PriceFeedOfflineCheck"] = [enable |-> FALSE]
    /\ Val(call.result).enable = TRUE

\* the age after which the validators of events.py take a cross-chain price
\* for one that stopped updating (PriceStoppedUpdatingCrosschain.threshold)
StoppedUpdatingThreshold == 3600

\* the cross-chain price of the call is older than that
CrosschainStale ==
    call.v.time - Val(call.v.crosschain_price).publish_time > StoppedUpdatingThreshold

\* the cross-chain price is more than the threshold percent from the Pyth price
CrosschainDeviates ==
    Abs(Val(call.v.crosschain_price).price - call.v.pyth_price) * 100
        > PriceDeviationCrosschainThreshold * call.v.pyth_price

\* C32: PriceDeviationCrosschain.is_valid returns False when the aggregate
\* status is Trading, the Pyth price is non-zero, the cross-chain price is not
\* stale and it deviates from the Pyth price by more than the threshold
\* percent; it returns True when the cross-chain price is missing, stale, or
\* within the threshold.
C32_LegacyDeviation ==
    Returned("PriceDeviationCrosschain.is_valid") =>
        IF IsNone(call.v.crosschain_price) THEN Val(call.result) = TRUE
        ELSE /\ CrosschainStale \/ ~CrosschainDeviates => Val(call.result) = TRUE
             /\ /\ call.v.price_status = "TRADING"
                /\ call.v.pyth_price # 0
                /\ ~CrosschainStale
                /\ CrosschainDeviates
                => Val(call.result) = FALSE

\* the raises of one step: each raised record is in the map afterwards with
\* sent = true and last_alert = the cycle time, a record that had a
\* last_alert before the step is raised only in minute 0 of an hour and more
\* than 5 minutes after it, and the last_alert of a record that stays in the
\* map changes only when the step raises it
RaiseStep ==
    /\ \A id \in last'.raised :
           /\ Has(open_alerts', id)
           /\ Get(open_alerts', id).sent
           /\ Get(open_alerts', id).last_alert = Some(now')
           /\ (Has(open_alerts, id) /\ ~IsNone(Get(open_alerts, id).last_alert)) =>
                  /\ MinuteOf(now') = 0
                  /\ now' - Val(Get(open_alerts, id).last_alert) > RealertMinutes
    /\ \A id \in Keys(open_alerts) \cap Keys(open_alerts') :
           Get(open_alerts', id).last_alert # Get(open_alerts, id).last_alert
               => id \in last'.raised

\* C33: after a record's first alert, a further alert for the same open
\* record is raised only in a cycle whose wall-clock minute is 0 and that is
\* more than 5 minutes after last_alert; every raise sets sent = true and
\* last_alert to the cycle time, so any two alerts for one open record are
\* more than 5 minutes apart.
C33_RaiseCadence == [][RaiseStep]_vars

\* a record alerted before is raised again: the pass saw it with its earlier
\* last_alert and leaves it with last_alert = the cycle time
C33_Witness ==
    \E k \in 1..Len(last.seen) :
        /\ last.seen[k].id \in last.raised
        /\ ~IsNone(last.seen[k].last_alert)
        /\ Has(open_alerts, last.seen[k].id)
        /\ Get(open_alerts, last.seen[k].id).last_alert = Some(now)
        /\ Val(last.seen[k].last_alert) < now

\* the cycle ran to its end: no exception left Observer.run's iteration
CycleCompleted == last.kind = "cycle" /\ last.exc = "None"

\* C34: after every completed cycle, every pending event in delayed_events
\* belongs to an identifier that is still present in open_alerts: removing a
\* record also removes its pending events for every configured
\* hysteresis-gated channel.
C34_NoOrphanEvents ==
    CycleCompleted =>
        \A key \in DOMAIN delayed_events : Has(open_alerts, key[2])

\* a cycle with both gated channels configured removed a record while the
\* check of that record failed in the same cycle, so events of both channels
\* were stored for it when the pass removed it
C34_Witness ==
    /\ CycleCompleted
    /\ \E i \in 1..Len(config.events) : config.events[i] = "TelegramEvent"
    /\ \E id \in last.resolved \cap last.failed :
          /\ ~Has(open_alerts, id)
          /\ \A key \in DOMAIN delayed_events : key[2] # id

\* C36: starting from an empty alert map, every reachable AlertRecord
\* satisfies: sent is true if and only if last_alert is non-null,
\* failures >= 0, and last_window_failures is null or >= 0.
C36_RecordInvariant ==
    \A i \in 1..Len(open_alerts) :
        /\ open_alerts[i].sent <=> ~IsNone(open_alerts[i].last_alert)
        /\ open_alerts[i].failures >= 0
        /\ \/ IsNone(open_alerts[i].last_window_failures)
           \/ Val(open_alerts[i].last_window_failures) >= 0

\* an alerted record whose window was rolled: sent with a last_alert, a
\* counted last window and no failure yet in the new one
C36_Witness ==
    \E i \in 1..Len(open_alerts) :
        /\ open_alerts[i].sent
        /\ ~IsNone(open_alerts[i].last_alert)
        /\ ~IsNone(open_alerts[i].last_window_failures)
        /\ open_alerts[i].failures = 0

\* one of the skips of PublisherStalledCheck.run applies to the call
StalledSkips ==
    \/ ~call.state.market_open
    \/ call.state.asset_type = "Crypto Redemption Rate"
    \/ call.state.latest_block_slot - call.state.slot >= call.cfg.max_slot_distance

\* C35: when PublisherStalledCheck.run skips (market closed, asset type
\* 'Crypto Redemption Rate', or latest_block_slot - slot >= max_slot_distance)
\* it returns pass and leaves the publisher's cached price history unchanged,
\* however long the price has been static.
C35_SkipLeavesCache ==
    (Returned("PublisherStalledCheck.run") /\ StalledSkips) =>
        /\ Val(call.result) = "pass"
        /\ call.cache_after = call.cache

\* a redemption rate of an open market and an online publisher whose price has
\* been the cached one for longer than abandoned_time_limit: the call passes
\* and the cache keeps its entry
C35_Witness ==
    /\ Returned("PublisherStalledCheck.run")
    /\ StalledSkips
    /\ Len(call.cache) > 0
    /\ call.time - call.cache[Len(call.cache)].timestamp > call.cfg.abandoned_time_limit
    /\ call.state.market_open
    /\ call.state.asset_type = "Crypto Redemption Rate"
    /\ call.state.latest_block_slot - call.state.slot < call.cfg.max_slot_distance
    /\ call.state.price = call.cache[Len(call.cache)].price
    /\ Val(call.result) = "pass"

\* the product is not skipped (__init__.py:100-104) and neither is its price
\* account (__init__.py:117-123)
Built(product) ==
    /\ product.has_base
    /\ product.has_first_price_account_key
    /\ ~IsNone(product.price_accounts[1].min_publishers)
    /\ Val(product.price_accounts[1].min_publishers) < MinPublishersLimit

\* the snapshot is in the list handed to Dispatch.run
Passed(snapshot) == \E k \in 1..Len(call.passed) : call.passed[k] = snapshot

\* C37: every PriceFeedState and PublisherState that Observer.run builds
\* during a cycle, for every product and price account that is not skipped,
\* is included in the list passed to Dispatch.run for that cycle.
C37_AllSnapshotsPassed ==
    Returned("Observer.run") =>
        \A i \in 1..Len(call.products) :
            LET product == call.products[i]
                account == product.price_accounts[1]
            IN  Built(product) =>
                    /\ Passed(price_feed_state(product, account))
                    /\ \A k \in 1..Len(account.components) :
                           Passed(publisher_state(product, account,
                                                  account.components[k]))

\* C38: with an events configuration that contains TelegramEvent but not
\* ZendutyEvent, Dispatch.run handles a failing check without raising, and
\* the Telegram alert for it is sent once its failures reach alert_threshold.
C38_TelegramOnly ==
    (last.kind = "cycle" /\ last.stage # "none") =>
        /\ last.exc = "None"
        /\ \A id \in last.failed :
              (Has(open_alerts, id)
                  /\ Get(open_alerts, id).failures >= DefaultAlertThreshold)
                  => Get(open_alerts, id).sent

\* the raises, the resolutions and the sends of a run of Dispatch.run, and the
\* alert map after it
Outcome(r) ==
    [alerts |-> r.alerts, raised |-> r.raised, resolved |-> r.resolved,
     loop_sends |-> r.loop_sends, pass_sends |-> r.pass_sends,
     resolve_sent |-> r.resolve_sent]

\* a restart after a completed cycle: for every input of the next cycle, the
\* restarted process (primed state) yields what the stopped one would have
RestartStep ==
    (last'.kind = "restart" /\ CycleCompleted /\ now < EndTime(config)) =>
        \A dt \in 1..MaxStep, products \in Fetches(config) :
            LET sts == build_states(products, 1,
                                    [states |-> <<>>, exc |-> "None"]).states
            IN  Outcome(dispatch_run(config, sts, open_alerts', delayed_events',
                                     now + dt, OkIO))
                = Outcome(dispatch_run(config, sts, open_alerts, delayed_events,
                                       now + dt, OkIO))

\* C39: restart transparency: stopping the process after a completed cycle
\* and restarting it, with open_alerts reloaded from the alert-state file,
\* yields for the inputs of the following cycle the same AlertRecord map and
\* the same raise and resolve notifications as the uninterrupted run.
C39_RestartTransparent == [][RestartStep]_vars

====
